---- MODULE Spec2Model ----
(***************************************************************************)
(* Master/slave synchronisation of chunrichi/rag-chat.                     *)
(*                                                                         *)
(*   MasterSync (src/app/sync/master_sync.py): handle_slave_sync writes a  *)
(*   timestamped snapshot file and overwrites the in-memory record of the  *)
(*   slave; clean_old_data deletes snapshot files by the date token of the *)
(*   file name and evicts the records that point at a deleted file.        *)
(*                                                                         *)
(*   SlaveSync (src/app/sync/slave_sync.py) and its control surface        *)
(*   (src/app/web/main.py): start_sync / stop_sync and the sync loop.      *)
(*                                                                         *)
(* Strings whose characters the code inspects (file names, slave ids,      *)
(* date tokens) are sequences of one-character strings, so that split("_"),*)
(* startswith, endswith and the string comparison "<" are computed as      *)
(* Python computes them.                                                   *)
(***************************************************************************)
EXTENDS Integers, Sequences, FiniteSets, TLC

(***************************************************************************)
(* Bounds of the model.                                                    *)
(***************************************************************************)
\* the clock advances at most MaxClock times in a run, each time by a
\* second or to the next day
MaxClock == 1
\* at most MaxIngests calls of handle_slave_sync in a run
MaxIngests == 2

(***************************************************************************)
(* Strings.                                                                *)
(***************************************************************************)
\* the characters that occur, in code point order (Python compares str by
\* code point): . / 0-9 _ a-z
Alphabet ==
  << ".", "/", "0", "1", "2", "3", "4", "5", "6", "7", "8", "9", "_",
     "a", "b", "c", "d", "e", "f", "g", "h", "i", "j", "k", "l", "m",
     "n", "o", "p", "q", "r", "s", "t", "u", "v", "w", "x", "y", "z" >>

OrdOf == [c \in { Alphabet[i] : i \in 1..Len(Alphabet) } |->
            CHOOSE i \in 1..Len(Alphabet) : Alphabet[i] = c]

Ord(c) == OrdOf[c]

\* Python a < b on str: the first differing character decides; without
\* one, the shorter string is the smaller
StrLess(a, b) ==
  LET m == IF Len(a) < Len(b) THEN Len(a) ELSE Len(b)
      D == { i \in 1..m : a[i] # b[i] }
  IN IF D = { } THEN Len(a) < Len(b)
     ELSE LET k == CHOOSE i \in D : \A j \in D : i <= j
          IN Ord(a[k]) < Ord(b[k])

StartsWith(s, p) == Len(s) >= Len(p) /\ SubSeq(s, 1, Len(p)) = p

EndsWith(s, p) == Len(s) >= Len(p) /\ SubSeq(s, Len(s) - Len(p) + 1, Len(s)) = p

\* Python s.split(sep) for a one-character sep: the fields between the
\* occurrences of sep (n occurrences give n + 1 fields, empty ones included)
SplitAt(s, P) ==
  LET n == Cardinality(P)
      \* the position of the k-th occurrence; 0 and Len(s) + 1 bracket them
      at(k) == IF k = 0 THEN 0
               ELSE IF k = n + 1 THEN Len(s) + 1
               ELSE CHOOSE i \in P : Cardinality({ j \in P : j < i }) = k - 1
  IN [k \in 1..(n + 1) |-> SubSeq(s, at(k - 1) + 1, at(k) - 1)]

Split(s, sep) == SplitAt(s, { i \in 1..Len(s) : s[i] = sep })

DigitChars == << "0", "1", "2", "3", "4", "5", "6", "7", "8", "9" >>

\* the decimal digits of n, zero-padded to width w (strftime fields)
RECURSIVE Pad(_, _)
Pad(n, w) ==
  IF w = 0 THEN << >> ELSE Append(Pad(n \div 10, w - 1), DigitChars[(n % 10) + 1])

(***************************************************************************)
(* The clock: datetime.now() is [day |-> days since 2026-10-30,            *)
(* sec |-> second of that day].                                            *)
(***************************************************************************)
\* the calendar date << year, month, day >> of a day number, across the
\* October/November boundary; d may be negative (now - timedelta(days))
DateOf(d) ==
  IF d <= 1 THEN << 2026, 10, 30 + d >>
  ELSE IF d <= 31 THEN << 2026, 11, d - 1 >>
  ELSE << 2026, 12, d - 31 >>

\* strftime("%Y%m%d")
StrfDate(d) ==
  LET ymd == DateOf(d) IN Pad(ymd[1], 4) \o Pad(ymd[2], 2) \o Pad(ymd[3], 2)

\* strftime("%H%M%S")
StrfTime(s) == Pad(s \div 3600, 2) \o Pad((s \div 60) % 60, 2) \o Pad(s % 60, 2)

(***************************************************************************)
(* MasterSync (src/app/sync/master_sync.py).                               *)
(*                                                                         *)
(* handle_slave_sync is a coroutine without any await in its body and      *)
(* clean_old_data is a plain method, so on the event loop of               *)
(* src/app/web/main.py each call runs to its return before another call    *)
(* starts: each is one action.  A failure inside a call is an outcome the  *)
(* action draws.                                                           *)
(***************************************************************************)
VARIABLES
  now,          \* datetime.now(): [day, sec]
  files,        \* the data directory: path -> [content, complete, written]
  synced_data,  \* self.synced_data, a dict in insertion order: a sequence
                \* of [slave_id, last_sync, data, file_path]
  slaves,       \* self.slaves, a list
  last,         \* the call made last: what it returned and, as history,
                \* what it was given and what happened inside
  nIngest,      \* history: calls of handle_slave_sync so far
                \* history of the calls before the first clean_old_data (it is
                \* emptied by clean_old_data and not kept after it):
  okCount,      \*   the calls that returned "success"
  okKeys,       \*   << slave_id, timestamp >> of those
  lastOk,       \*   per slave_id the snapshot ingested last
  swept,        \* history: clean_old_data has run
  advances      \* history: how often the clock has advanced

\* the state of the slave node (SlaveSync, below)
VARIABLES
  is_running,   \* self.is_running
  last_sync_result,  \* self.last_sync_result: the status of the dict
  last_sync_time,    \* self.last_sync_time; the empty string for None
  config,       \* self.config: what it holds under the key sync_interval
  tasks,        \* the tasks running start_sync_loop: task -> [pc, i, gap, first]
  ready,        \* the ready queue of the event loop
  todo,         \* how many callbacks at its head belong to the running round
  stopPending,  \* history: stop_sync has stopped the loop and no start_sync
                \* has started one since
  sinceStop     \* history: what the loops have begun since that stop

masterVars ==
  << now, files, synced_data, slaves, last, nIngest, okCount, okKeys, lastOk, swept,
     advances >>

slaveVars ==
  << is_running, last_sync_result, last_sync_time, config, tasks, ready, todo, stopPending,
     sinceStop >>

\* one call of SlaveSync.sync_to_master made by the handler manual_sync
VARIABLES
  call          \* where the call is, and as history what it collected, what
                \* it sent and what it returned

pushVars == << call >>

\* a call of EmailParser.extract_ticket_info
VARIABLES
  email_body,   \* the text it is given, a sequence of characters
  ticket_info   \* the dict it returned; no key before it has returned

ticketVars == << email_body, ticket_info >>

\* the tickets EmailParser.save_to_file keeps on the disk
VARIABLES
  os_name,      \* os.name of the platform: "posix" or "nt"
  incoming,     \* the mail at hand: its email_details and the paths of its
                \* attachments
  disk,         \* the file system: path -> [kind, content]
  parsed_data,  \* the dict parse_email returned last; no key before a call
  saved         \* the call of save_to_file made last for parsed_data: how it
                \* ended and, as history, what happened inside

storeVars == << os_name, incoming, disk, parsed_data, saved >>

\* a call of EmailParser._is_image_file, and a call of
\* EmailParser.batch_parse_emails
VARIABLES
  image_path,   \* the path _is_image_file is given
  is_image,     \* what it returned: [returned, value]
  batch         \* the call of batch_parse_emails made last: the emails it
                \* was given, how the work on each ended, and the list it
                \* returned

callVars == << image_path, is_image, batch >>

vars == << masterVars, slaveVars, pushVars, ticketVars, storeVars, callVars >>

\* SlaveSync._get_slave_id: f"{hostname}_{ip_address}"
SlaveIdOf(hostname, ip_address) == hostname \o << "_" >> \o ip_address

Pc1 == << "p", "c", "1" >>
HostA == SlaveIdOf(<< "h", "a" >>, << "1", "0", ".", "0", ".", "0", ".", "5" >>)

\* the slave ids that are pushed: a plain one and one that SlaveSync derives
SlaveIds == { Pc1, HostA }

\* the values of days clean_old_data is called with
SweepDays == { 0, 1 }

\* the snapshots that are pushed
Payloads == { "snapA", "snapB" }

\* self.data_directory
DataDirectory == << "s", "d" >>

\* os.path.join(self.data_directory, name)
PathJoin(dir, name) == dir \o << "/" >> \o name

\* the names of the files of dir
Names(fs, dir) ==
  { SubSeq(p, Len(dir) + 2, Len(p)) : p \in { q \in DOMAIN fs : StartsWith(q, dir \o << "/" >>) } }

\* os.listdir(dir): the names in an arbitrary order, which is one fixed order
\* for one content of the directory.  The loop of clean_old_data handles
\* every name independently of the names before it, so the order decides
\* only which files a run that aborts has handled already.
ListDir(fs, dir) ==
  LET S == Names(fs, dir) IN
  CHOOSE l \in [1..Cardinality(S) -> S] : \A i, j \in 1..Cardinality(S) : i # j => l[i] # l[j]

\* datetime.now().strftime("%Y%m%d_%H%M%S")
Timestamp(t) == StrfDate(t.day) \o << "_" >> \o StrfTime(t.sec)

\* a variant that names the file after the slave and the day only
DataFileOfDay(slave_id, timestamp) ==
  PathJoin(DataDirectory,
           << "s", "y", "n", "c", "_" >> \o slave_id \o << "_" >> \o SubSeq(timestamp, 1, 8)
             \o << ".", "j", "s", "o", "n" >>)

\* f"sync_{slave_id}_{timestamp}.json" in the data directory
DataFile(slave_id, timestamp) ==
  PathJoin(DataDirectory,
           << "s", "y", "n", "c", "_" >> \o slave_id \o << "_" >> \o timestamp
             \o << ".", "j", "s", "o", "n" >>)

\* json.dump(data, f, ...): what the file holds after a complete write
JsonDump(data) == << "json", data >>

\* len(json.dumps(data))
JsonLen(data) == IF data = "snapA" THEN 64 ELSE 96

\* the keys of the dict
Keys(d) == { d[i].slave_id : i \in 1..Len(d) }

\* d.get(k): the record of k
Get(d, k) == d[CHOOSE i \in 1..Len(d) : d[i].slave_id = k]

\* a variant that keeps the record a key has already
SetRecordKeepFirst(d, rec) ==
  IF rec.slave_id \in Keys(d) THEN d ELSE Append(d, rec)

\* self.synced_data[slave_id] = {...}: a new key is appended, the value of
\* an existing key is replaced where it stands
SetRecord(d, rec) ==
  IF rec.slave_id \in Keys(d)
    THEN [i \in 1..Len(d) |-> IF d[i].slave_id = rec.slave_id THEN rec ELSE d[i]]
    ELSE Append(d, rec)

\* a variant that appends without the membership test
RecordSlaveAlways(l, slave_id) == Append(l, slave_id)

\* if slave_id not in self.slaves: self.slaves.append(slave_id)
RecordSlave(l, slave_id) ==
  IF \E i \in 1..Len(l) : l[i] = slave_id THEN l ELSE Append(l, slave_id)

\* the three ways a call of handle_slave_sync ends: the file is written;
\* open() raises (nothing is written); json.dump raises after open() has
\* created or truncated the file
IngestOutcomes == { "ok", "open_error", "dump_error" }

\* the directory after the with-block of handle_slave_sync: open(.., "w")
\* creates the file or truncates the one of that name, json.dump fills it.
\* owner and written are history: who wrote the file, on which day
WriteSnapshot(fs, data_file, slave_id, data, outcome, day) ==
  IF outcome = "open_error" THEN fs
  ELSE [p \in DOMAIN fs \cup { data_file } |->
          IF p = data_file
            THEN [content  |-> IF outcome = "ok" THEN JsonDump(data) ELSE << "json" >>,
                  complete |-> outcome = "ok",
                  owner    |-> slave_id,
                  written  |-> day]
            ELSE fs[p]]

\* a variant that sets the record before the file is written
IndexAfterAlways(d, rec, outcome) == SetRecord(d, rec)

\* self.synced_data after the call: the record is set after the with-block,
\* inside the try, so only when nothing raised before it
IndexAfter(d, rec, outcome) == IF outcome = "ok" THEN SetRecord(d, rec) ELSE d

\* self.slaves after the call
SlavesAfter(l, slave_id, outcome) == IF outcome = "ok" THEN RecordSlave(l, slave_id) ELSE l

\* what the call returns: the ack of the try block, or the ack the except
\* clause makes of any Exception (nothing is raised to the caller); failure
\* is history: what went wrong inside
Ack(outcome, timestamp, data) ==
  IF outcome = "ok"
    THEN [op |-> "ingest", status |-> "success", raised |-> FALSE, failure |-> "none",
          timestamp |-> timestamp, received_data_size |-> JsonLen(data)]
    ELSE [op |-> "ingest", status |-> "error", raised |-> FALSE, failure |-> outcome]

handle_slave_sync(slave_id, data, outcome) ==
  LET timestamp == Timestamp(now)
      data_file == DataFile(slave_id, timestamp)
      rec == [slave_id |-> slave_id, last_sync |-> timestamp, data |-> data,
              file_path |-> data_file]
  IN
  /\ nIngest < MaxIngests
  /\ nIngest' = nIngest + 1
  /\ files' = WriteSnapshot(files, data_file, slave_id, data, outcome, now.day)
  /\ synced_data' = IndexAfter(synced_data, rec, outcome)
  /\ slaves' = SlavesAfter(slaves, slave_id, outcome)
  /\ last' = Ack(outcome, timestamp, data)
  /\ IF outcome = "ok" /\ ~swept
       THEN /\ okCount' = okCount + 1
            /\ okKeys' = okKeys \cup { << slave_id, timestamp >> }
            /\ lastOk' = [lastOk EXCEPT ![slave_id] = << rec >>]
       ELSE UNCHANGED << okCount, okKeys, lastOk >>
  /\ UNCHANGED << now, swept, advances >>
  /\ UNCHANGED << slaveVars, pushVars, ticketVars, storeVars, callVars >>

\* cutoff_str = (datetime.now() - timedelta(days=days)).strftime("%Y%m%d")
CutoffStr(t, days) == StrfDate(t.day - days)

\* filename.startswith("sync_") and filename.endswith(".json")
IsSnapshotName(filename) ==
  /\ StartsWith(filename, << "s", "y", "n", "c", "_" >>)
  /\ EndsWith(filename, << ".", "j", "s", "o", "n" >>)

\* filename.split("_")[2] exists (it raises IndexError otherwise)
HasDateField(filename) == Cardinality({ i \in 1..Len(filename) : filename[i] = "_" }) >= 2

\* file_date_str = filename.split("_")[2]
FileDateStr(filename) == Split(filename, "_")[3]

\* a variant that also takes the cutoff day itself as old
IsOldOrCutoff(file_date_str, cutoff_str) ==
  StrLess(file_date_str, cutoff_str) \/ file_date_str = cutoff_str

\* if file_date_str < cutoff_str
IsOld(file_date_str, cutoff_str) == StrLess(file_date_str, cutoff_str)

\* a variant that deletes the first record of the dict whatever it points at
EvictFirst(d, file_path) == IF d = << >> THEN d ELSE Tail(d)

\* for slave_id, data in self.synced_data.items():
\*     if data["file_path"] == file_path: del self.synced_data[slave_id]; break
\* the first record, in dict order, that points at file_path is deleted
Evict(d, file_path) ==
  IF \E i \in 1..Len(d) : d[i].file_path = file_path
    THEN LET k == CHOOSE i \in 1..Len(d) :
                    /\ d[i].file_path = file_path
                    /\ \A j \in 1..(i - 1) : d[j].file_path # file_path
         IN SubSeq(d, 1, k - 1) \o SubSeq(d, k + 1, Len(d))
    ELSE d

\* os.remove(file_path)
Remove(fs, file_path) == [p \in DOMAIN fs \ { file_path } |-> fs[p]]

\* the for loop of clean_old_data over the listing, from the state st =
\* [files, synced_data, files_deleted, aborted, fail]; fail = k > 0 makes
\* the k-th os.remove of the run raise, which ends the loop in the except
\* clause; a name with fewer than three fields raises IndexError
RECURSIVE SweepLoop(_, _, _)
SweepLoop(listing, st, cutoff_str) ==
  IF listing = << >> \/ st.aborted THEN st
  ELSE
    LET filename  == Head(listing)
        file_path == PathJoin(DataDirectory, filename)
    IN
    IF ~IsSnapshotName(filename) THEN SweepLoop(Tail(listing), st, cutoff_str)
    ELSE IF ~HasDateField(filename) THEN [st EXCEPT !.aborted = TRUE]
    ELSE IF ~IsOld(FileDateStr(filename), cutoff_str)
      THEN SweepLoop(Tail(listing), st, cutoff_str)
    ELSE IF st.fail = 1 THEN [st EXCEPT !.aborted = TRUE]
    ELSE SweepLoop(Tail(listing),
                   [files         |-> Remove(st.files, file_path),
                    synced_data   |-> Evict(st.synced_data, file_path),
                    files_deleted |-> st.files_deleted + 1,
                    aborted       |-> FALSE,
                    fail          |-> IF st.fail > 1 THEN st.fail - 1 ELSE 0],
                   cutoff_str)

clean_old_data(days, fail) ==
  LET res == SweepLoop(ListDir(files, DataDirectory),
                       [files |-> files, synced_data |-> synced_data,
                        files_deleted |-> 0, aborted |-> FALSE, fail |-> fail],
                       CutoffStr(now, days))
  IN
  /\ files' = res.files
  /\ synced_data' = res.synced_data
  /\ last' = [op |-> "sweep", days |-> days, aborted |-> res.aborted,
              ret |-> IF res.aborted THEN 0 ELSE res.files_deleted,
              removed |-> DOMAIN files \ DOMAIN res.files]
  /\ swept' = TRUE
  /\ okCount' = 0
  /\ okKeys' = { }
  /\ lastOk' = [s \in SlaveIds |-> << >>]
  /\ UNCHANGED << now, slaves, nIngest, advances >>
  /\ UNCHANGED << slaveVars, pushVars, ticketVars, storeVars, callVars >>

\* a variant of __init__ that reads the index back from the directory
IndexOfFiles(fs) == IF DOMAIN fs = { } THEN << >>
                    ELSE LET p == CHOOSE p \in DOMAIN fs : TRUE
                         IN << [slave_id |-> fs[p].owner, last_sync |-> << >>, data |-> "snapA",
                                file_path |-> p] >>

\* self.synced_data = {} in __init__
EmptyIndex(fs) == << >>

\* the process is started again: MasterSync.__init__(data_directory) on the
\* directory as it is; the histories of the calls that made the index end
\* as they do in clean_old_data
NewMasterSync ==
  /\ synced_data' = EmptyIndex(files)
  /\ slaves' = << >>
  /\ last' = [op |-> "restart"]
  /\ swept' = TRUE
  /\ okCount' = 0
  /\ okKeys' = { }
  /\ lastOk' = [s \in SlaveIds |-> << >>]
  /\ UNCHANGED << now, files, nIngest, advances >>
  /\ UNCHANGED << slaveVars, pushVars, ticketVars, storeVars, callVars >>

\* datetime.now().strftime("%Y-%m-%d %H:%M:%S")
StrfDashed(t) ==
  LET ymd == DateOf(t.day) IN
  Pad(ymd[1], 4) \o << "-" >> \o Pad(ymd[2], 2) \o << "-" >> \o Pad(ymd[3], 2) \o << " " >>
    \o Pad(t.sec \div 3600, 2) \o << ":" >> \o Pad((t.sec \div 60) % 60, 2) \o << ":" >>
    \o Pad(t.sec % 60, 2)

\* the bytes a file holds: json.dump(data, f, ensure_ascii=False, indent=2)
\* of a snapshot, or what a json.dump that raised had written before
ByteLen(content) ==
  IF content = JsonDump("snapA") THEN 80
  ELSE IF content = JsonDump("snapB") THEN 120
  ELSE 7

\* a variant that reports no size
GetSizeNone(fs, file_path) == 0

\* os.path.getsize(path) if os.path.exists(path) else 0
GetSize(fs, file_path) ==
  IF file_path \in DOMAIN fs THEN ByteLen(fs[file_path].content) ELSE 0

\* the slave_report of one item of self.synced_data
SlaveReport(fs, rec) ==
  [slave_id  |-> rec.slave_id,
   last_sync |-> rec.last_sync,
   data_file |-> rec.file_path,
   data_size |-> GetSize(fs, rec.file_path)]

\* generate_sync_report: the report it returns; it assigns nothing
generate_sync_report ==
  /\ last' = [op |-> "report",
              generated_at      |-> StrfDashed(now),
              total_slaves      |-> Len(slaves),
              synced_data_count |-> Len(synced_data),
              data_directory    |-> DataDirectory,
              slave_details     |-> [i \in 1..Len(synced_data) |->
                                       SlaveReport(files, synced_data[i])]]
  /\ UNCHANGED << now, files, synced_data, slaves, nIngest, okCount, okKeys, lastOk,
                  swept, advances >>
  /\ UNCHANGED << slaveVars, pushVars, ticketVars, storeVars, callVars >>

\* a second passes
Tick ==
  /\ advances < MaxClock
  /\ advances' = advances + 1
  /\ now' = [now EXCEPT !.sec = now.sec + 1]
  /\ last' = [op |-> "tick"]
  /\ UNCHANGED << files, synced_data, slaves, nIngest, okCount, okKeys, lastOk, swept >>
  /\ UNCHANGED << slaveVars, pushVars, ticketVars, storeVars, callVars >>

\* midnight passes
NextDay ==
  /\ advances < MaxClock
  /\ advances' = advances + 1
  /\ now' = [day |-> now.day + 1, sec |-> 0]
  /\ last' = [op |-> "tick"]
  /\ UNCHANGED << files, synced_data, slaves, nIngest, okCount, okKeys, lastOk, swept >>
  /\ UNCHANGED << slaveVars, pushVars, ticketVars, storeVars, callVars >>

(***************************************************************************)
(* SlaveSync (src/app/sync/slave_sync.py) and the handlers start_sync and   *)
(* stop_sync of src/app/web/main.py, on one asyncio event loop.            *)
(*                                                                         *)
(* The event loop runs its ready callbacks one at a time, first in first   *)
(* out, each to its next await that really suspends.  It works in rounds:  *)
(* a round runs the callbacks that were ready when it began, and only then *)
(* what the network and the timers brought in (a request, the end of an    *)
(* HTTP exchange, the end of a sleep) is queued, behind whatever the round *)
(* queued itself.  start_sync and stop_sync hold no await and run in one   *)
(* piece.  asyncio.create_task only *)
(* queues the first step of start_sync_loop, so self.is_running = True     *)
(* happens when that step is run, not when start_sync returns.  The loop   *)
(* suspends inside sync_to_master (the HTTP exchange) and in               *)
(* asyncio.sleep(1).  A sync_to_master that fails before its HTTP exchange *)
(* (collect_system_info raises) returns without a suspension; the model    *)
(* lets it end like an exchange that fails, which only adds interleavings. *)
(***************************************************************************)
\* at most MaxTasks sync loops are alive at a time
MaxTasks == 2
\* at most MaxQueue requests wait in the ready queue
MaxQueue == 1
\* self.config['sync_interval'], in seconds (300 by default), scaled down
SyncInterval == 2
\* the total timeout of the aiohttp.ClientSession (300 s by default), in
\* steps of waiting
HttpTimeout == 1

Tasks == 1..MaxTasks

\* a task that has begun start_sync_loop and has not left it
Active(t) == tasks[t].pc \in { "pushing", "push_ready", "sleeping", "sleep_ready" }

\* a task slot that is free
Free(t) == tasks[t].pc \in { "none", "done" }

NoTask == [pc |-> "none", i |-> 0, gap |-> 0, first |-> TRUE, waited |-> 0]

\* await self.sync_to_master(): the loop is suspended in the HTTP exchange.
\* gap is history: the sleep(1) calls completed since the push before
StartPush(task) ==
  [pc |-> "pushing", i |-> 0, gap |-> task.gap, first |-> task.first, waited |-> 0]

\* while self.is_running: ... at the top of the loop
WhileTop(task, running) ==
  IF running THEN StartPush(task)
  ELSE [pc |-> "done", i |-> 0, gap |-> 0, first |-> TRUE, waited |-> 0]

\* a variant without the test of the flag in the body: it sleeps out the
\* rest of the interval
ForIterNoCheck(task, running, n) ==
  IF task.i >= n THEN WhileTop(task, running)
  ELSE [pc |-> "sleeping", i |-> task.i + 1, gap |-> task.gap, first |-> FALSE, waited |-> 0]

\* a variant that sleeps one second less than the interval
ForIterShort(task, running, n) ==
  IF task.i >= n - 1 THEN WhileTop(task, running)
  ELSE IF ~running THEN WhileTop(task, running)
  ELSE [pc |-> "sleeping", i |-> task.i + 1, gap |-> task.gap, first |-> FALSE, waited |-> 0]

\* the header of for _ in range(n) with i iterations done, and the body up
\* to await asyncio.sleep(1):  if not self.is_running: break
ForIter(task, running, n) ==
  IF task.i >= n THEN WhileTop(task, running)
  ELSE IF ~running THEN WhileTop(task, running)
  ELSE [pc |-> "sleeping", i |-> task.i + 1, gap |-> task.gap, first |-> FALSE, waited |-> 0]

\* the callbacks left to run in this round once the head of the ready queue
\* has run; a round that is over gives way to one with all that is ready
RoundAfterRun == (IF todo = 0 THEN Len(ready) ELSE todo) - 1

\* POST /api/sync/start arrives
RequestStart ==
  /\ todo = 0
  /\ Len(ready) < MaxQueue
  /\ Cardinality({ t \in Tasks : ~Free(t) })
       + Cardinality({ k \in 1..Len(ready) : ready[k].kind = "start" }) < MaxTasks
  /\ ready' = Append(ready, [kind |-> "start", t |-> 0])
  /\ UNCHANGED << is_running, last_sync_result, last_sync_time, tasks, todo, stopPending, sinceStop >>
  /\ UNCHANGED << config, masterVars, pushVars, ticketVars, storeVars, callVars >>

\* POST /api/sync/stop arrives
RequestStop ==
  /\ todo = 0
  /\ Len(ready) < MaxQueue
  /\ ready' = Append(ready, [kind |-> "stop", t |-> 0])
  /\ UNCHANGED << is_running, last_sync_result, last_sync_time, tasks, todo, stopPending, sinceStop >>
  /\ UNCHANGED << config, masterVars, pushVars, ticketVars, storeVars, callVars >>

\* start_sync: rejected if slave_sync.is_running, else
\* asyncio.create_task(slave_sync.start_sync_loop())
start_sync ==
  /\ ready # << >> /\ Head(ready).kind = "start"
  /\ IF is_running
       THEN /\ ready' = Tail(ready)
            /\ UNCHANGED << tasks, stopPending, sinceStop >>
       ELSE LET t == CHOOSE u \in Tasks : Free(u) IN
            /\ tasks' = [tasks EXCEPT ![t] = [NoTask EXCEPT !.pc = "created"]]
            /\ ready' = Append(Tail(ready), [kind |-> "task", t |-> t])
            /\ stopPending' = FALSE
            /\ sinceStop' = [pushes |-> 0, sleeps |-> 0, completed |-> 0]
  /\ todo' = RoundAfterRun
  /\ UNCHANGED << is_running, last_sync_result, last_sync_time >>
  /\ UNCHANGED << config, masterVars, pushVars, ticketVars, storeVars, callVars >>

\* a variant of stop_sync_loop that also cancels the pushes in flight
stop_sync_loop_cancels(running, ts) ==
  [is_running |-> FALSE,
   tasks |-> [t \in DOMAIN ts |->
                IF ts[t].pc = "pushing"
                  THEN [pc |-> "done", i |-> 0, gap |-> 0, first |-> TRUE, waited |-> 0]
                  ELSE ts[t]]]

\* stop_sync_loop: self.is_running = False, and nothing else: no task is
\* cancelled
stop_sync_loop(running, ts) == [is_running |-> FALSE, tasks |-> ts]

\* stop_sync: rejected if not slave_sync.is_running, else
\* slave_sync.stop_sync_loop()
stop_sync ==
  /\ ready # << >> /\ Head(ready).kind = "stop"
  /\ ready' = Tail(ready)
  /\ IF ~is_running
       THEN UNCHANGED << is_running, tasks, stopPending, sinceStop >>
       ELSE LET after == stop_sync_loop(is_running, tasks) IN
            /\ is_running' = after.is_running
            /\ tasks' = after.tasks
            /\ stopPending' = TRUE
            /\ sinceStop' = [pushes |-> 0, sleeps |-> 0, completed |-> 0]
  /\ todo' = RoundAfterRun
  /\ UNCHANGED << last_sync_result, last_sync_time >>
  /\ UNCHANGED << config, masterVars, pushVars, ticketVars, storeVars, callVars >>

\* what a step of the loop adds to the history since the last stop
Noted(old, new) ==
  [pushes |-> IF new.pc = "pushing" /\ stopPending THEN 1 ELSE sinceStop.pushes,
   sleeps |-> IF new.pc = "sleeping" /\ stopPending THEN 1 ELSE sinceStop.sleeps,
   completed |-> sinceStop.completed]

\* what self.config holds under sync_interval: the number of seconds; no
\* such key (load_config returns the file as it is); a value range() does
\* not take, such as a string
Intervals == { "int", "missing", "text" }

\* the task ends with what start_sync_loop raised; nothing resets the flag
LoopRaises == [NoTask EXCEPT !.pc = "done"]

\* the first step of start_sync_loop: self.is_running = True, then the
\* logger line reads self.config['sync_interval'] (KeyError without the
\* key), then the loop is entered and suspends in the first sync_to_master
LoopBegins(t) ==
  /\ ready # << >> /\ Head(ready) = [kind |-> "task", t |-> t]
  /\ tasks[t].pc = "created"
  /\ is_running' = TRUE
  /\ LET new == IF config = "missing" THEN LoopRaises ELSE WhileTop(tasks[t], TRUE) IN
     /\ tasks' = [tasks EXCEPT ![t] = new]
     /\ sinceStop' = Noted(tasks[t], new)
  /\ ready' = Tail(ready)
  /\ todo' = RoundAfterRun
  /\ UNCHANGED << stopPending, last_sync_result, last_sync_time >>
  /\ UNCHANGED << config, masterVars, pushVars, ticketVars, storeVars, callVars >>

\* the ways a call of sync_to_master ends: the master answers with its ack
\* of success; the master answers with an ack of status "error"; something
\* raises (the collection, the connection, the exchange, the decoding of a
\* response that is not JSON); the session's timeout raises
PushOutcomes == { "success", "rejected", "raised", "timeout" }

\* a variant whose except clause lets the timeout of the session pass
PushResultLetsTimeoutPass(outcome) ==
  IF outcome = "success"
    THEN [status |-> "success", raised |-> FALSE, failure |-> "none"]
    ELSE [status |-> "error", raised |-> outcome = "timeout", failure |-> outcome]

\* what sync_to_master returns and stores in self.last_sync_result: the
\* JSON of the master, or the error result the except clause makes of any
\* Exception (nothing is raised to the caller); failure is history: what
\* went wrong
PushResult(outcome) ==
  IF outcome = "success"
    THEN [status |-> "success", raised |-> FALSE, failure |-> "none"]
    ELSE [status |-> "error", raised |-> FALSE, failure |-> outcome]

\* what self.last_sync_result keeps of a result: its status
Stored(result) == [status |-> result.status]

\* the outcomes in which the master's JSON was received
Answered == { "success", "rejected" }

\* a variant that notes the time of every call that ends
SyncTimeAlways(old, outcome, t) == StrfDashed(t)

\* self.last_sync_time after a call that ends at time t: it is set next to
\* self.last_sync_result once response.json() has returned, and not in the
\* except clause
SyncTimeAfter(old, outcome, t) == IF outcome \in Answered THEN StrfDashed(t) ELSE old

\* a variant of a session without a timeout: ClientTimeout(total=None)
NeverTimedOut(task) == FALSE

\* aiohttp.ClientSession() is made without a timeout argument, so the
\* default total timeout applies: the exchange of a task is given up when
\* the time is up
TimedOut(task) == task.waited >= HttpTimeout

\* time passes in the HTTP exchange without an answer
HttpWaits(t) ==
  /\ tasks[t].pc = "pushing"
  /\ tasks[t].waited < HttpTimeout
  /\ tasks' = [tasks EXCEPT ![t].waited = tasks[t].waited + 1]
  /\ UNCHANGED << is_running, last_sync_result, last_sync_time, ready, todo, stopPending, sinceStop >>
  /\ UNCHANGED << config, masterVars, pushVars, ticketVars, storeVars, callVars >>

\* sync_to_master ends: the result is stored and returned, and the task is
\* ready again.  The timeout ends it when the time is up; nothing in it
\* looks at self.is_running.  start_sync_loop has no try of its own: what
\* sync_to_master raised would end the task
PushCompletes(t, outcome) ==
  /\ todo = 0
  /\ tasks[t].pc = "pushing"
  /\ outcome = "timeout" => TimedOut(tasks[t])
  /\ LET result == PushResult(outcome) IN
     /\ last_sync_result' = Stored(result)
     /\ last_sync_time' = SyncTimeAfter(last_sync_time, outcome, now)
     /\ IF result.raised
          THEN /\ tasks' = [tasks EXCEPT ![t] = [NoTask EXCEPT !.pc = "done"]]
               /\ UNCHANGED ready
          ELSE /\ tasks' = [tasks EXCEPT ![t].pc = "push_ready", ![t].waited = 0]
               /\ ready' = Append(ready, [kind |-> "task", t |-> t])
  /\ sinceStop' = [sinceStop EXCEPT !.completed = IF stopPending THEN 1 ELSE 0]
  /\ UNCHANGED << is_running, todo, stopPending >>
  /\ UNCHANGED << config, masterVars, pushVars, ticketVars, storeVars, callVars >>

\* sync_to_master returns and the for loop starts, whatever was returned;
\* range(self.config['sync_interval']) raises TypeError for a value that is
\* not an integer
LoopAfterPush(t) ==
  /\ ready # << >> /\ Head(ready) = [kind |-> "task", t |-> t]
  /\ tasks[t].pc = "push_ready"
  /\ LET new == IF config = "text" THEN LoopRaises
                ELSE ForIter([tasks[t] EXCEPT !.i = 0, !.gap = 0, !.first = FALSE],
                             is_running, SyncInterval) IN
     /\ tasks' = [tasks EXCEPT ![t] = new]
     /\ sinceStop' = Noted(tasks[t], new)
  /\ ready' = Tail(ready)
  /\ todo' = RoundAfterRun
  /\ UNCHANGED << is_running, last_sync_result, last_sync_time, stopPending >>
  /\ UNCHANGED << config, masterVars, pushVars, ticketVars, storeVars, callVars >>

\* the timer of asyncio.sleep(1) fires: the task is ready again
TimerFires(t) ==
  /\ todo = 0
  /\ tasks[t].pc = "sleeping"
  /\ tasks' = [tasks EXCEPT ![t].pc = "sleep_ready"]
  /\ ready' = Append(ready, [kind |-> "task", t |-> t])
  /\ UNCHANGED << is_running, last_sync_result, last_sync_time, todo, stopPending, sinceStop >>
  /\ UNCHANGED << config, masterVars, pushVars, ticketVars, storeVars, callVars >>

\* asyncio.sleep(1) returns and the for loop goes on
LoopAfterSleep(t) ==
  /\ ready # << >> /\ Head(ready) = [kind |-> "task", t |-> t]
  /\ tasks[t].pc = "sleep_ready"
  /\ LET new == ForIter([tasks[t] EXCEPT !.gap = tasks[t].gap + 1],
                        is_running, SyncInterval) IN
     /\ tasks' = [tasks EXCEPT ![t] = new]
     /\ sinceStop' = Noted(tasks[t], new)
  /\ ready' = Tail(ready)
  /\ todo' = RoundAfterRun
  /\ UNCHANGED << is_running, last_sync_result, last_sync_time, stopPending >>
  /\ UNCHANGED << config, masterVars, pushVars, ticketVars, storeVars, callVars >>

(***************************************************************************)
(* One call of sync_to_master in detail: what it collects, the snapshot it *)
(* builds and sends, and what it returns.  manual_sync of                  *)
(* src/app/web/main.py awaits it outside the loop.  The collection holds   *)
(* no await that suspends, so the call runs in one piece up to the POST.   *)
(***************************************************************************)
\* self.config: the settings main.py hands to SlaveSync
Config ==
  [master_ip |-> "127.0.0.1", master_port |-> "8000", sync_interval |-> SyncInterval,
   subject_keyword |-> "keyword", outlook_folder |-> "inbox"]

\* how many mails the reader finds
MailCounts == { 0, 1, 6 }

\* what happens in collect_outlook_info: the mails are read; connect()
\* returns False; something raises (OutlookReader(), reader.disconnect())
OutlookOutcomes == { "collected", "no_connect", "raised" }

\* what happens in collect_system_info: the host is described;
\* socket.gethostbyname raises
SystemOutcomes == { "ok", "raised" }

\* a coroutine returns a value, or raises
Returned(value) == [raised |-> FALSE, value |-> value]
Raised == [raised |-> TRUE]

\* a variant without the try: what is raised inside leaves the coroutine
collect_outlook_info_no_try(outcome, n, t) ==
  IF outcome = "no_connect"
    THEN Returned([status |-> "error", message |-> "no connection"])
  ELSE IF outcome = "raised"
    THEN Raised
  ELSE Returned([total_emails    |-> n,
                 last_collected  |-> StrfDashed(t),
                 subject_keyword |-> Config.subject_keyword,
                 outlook_folder  |-> Config.outlook_folder,
                 recent_emails   |-> [j \in 1..(IF n < 5 THEN n ELSE 5) |-> j]])

\* collect_outlook_info: the counts and the five most recent mails, or an
\* error record when the reader does not connect or anything raises; the
\* messages stand for the texts of lines 39 and 76
collect_outlook_info(outcome, n, t) ==
  IF outcome = "no_connect"
    THEN Returned([status |-> "error", message |-> "no connection"])
  ELSE IF outcome = "raised"
    THEN Returned([status |-> "error", message |-> "collection failed"])
  ELSE Returned([total_emails    |-> n,
                 last_collected  |-> StrfDashed(t),
                 subject_keyword |-> Config.subject_keyword,
                 outlook_folder  |-> Config.outlook_folder,
                 recent_emails   |-> [j \in 1..(IF n < 5 THEN n ELSE 5) |-> j]])

\* collect_system_info: it has no try of its own
collect_system_info(outcome, t) ==
  IF outcome = "raised" THEN Raised
  ELSE Returned([hostname     |-> << "h", "a" >>,
                 ip_address   |-> << "1", "0", ".", "0", ".", "0", ".", "5" >>,
                 collect_time |-> StrfDashed(t)])

\* the sync_data sync_to_master builds
SyncData(outlook_info, system_info, t) ==
  [slave_id     |-> HostA,
   timestamp    |-> StrfDashed(t),
   outlook_info |-> outlook_info,
   system_info  |-> system_info,
   config       |-> Config]

NoCall ==
  [pc |-> "idle", outlook |-> "none", system |-> "none", at |-> [day |-> 0, sec |-> 0],
   sync_data |-> << >>, posted |-> FALSE, result |-> [status |-> "none"]]

\* sync_to_master up to its POST: it collects, builds the snapshot and
\* sends it; what a collection raises is caught by the except clause of
\* sync_to_master, which stores and returns an error result without a POST
SyncToMasterPosts(outlook, n, system) ==
  /\ call.pc # "posted"
  /\ LET outlook_info == collect_outlook_info(outlook, n, now)
         system_info  == collect_system_info(system, now)
         begun == [NoCall EXCEPT !.outlook = outlook, !.system = system, !.at = now]
     IN IF outlook_info.raised \/ system_info.raised
          THEN /\ call' = [begun EXCEPT !.pc = "returned", !.result = PushResult("raised")]
               /\ last_sync_result' = Stored(PushResult("raised"))
               /\ last_sync_time' = SyncTimeAfter(last_sync_time, "raised", now)
          ELSE /\ call' = [begun EXCEPT
                             !.pc = "posted",
                             !.sync_data = SyncData(outlook_info.value, system_info.value, now),
                             !.posted = TRUE]
               /\ UNCHANGED << last_sync_result, last_sync_time >>
  /\ UNCHANGED << is_running, tasks, ready, todo, stopPending, sinceStop >>
  /\ UNCHANGED << config, masterVars, ticketVars, storeVars, callVars >>

\* the HTTP exchange of the call ends: the result is stored and returned
SyncToMasterReturns(outcome) ==
  /\ call.pc = "posted"
  /\ call' = [call EXCEPT !.pc = "returned", !.result = PushResult(outcome)]
  /\ last_sync_result' = Stored(PushResult(outcome))
  /\ last_sync_time' = SyncTimeAfter(last_sync_time, outcome, now)
  /\ UNCHANGED << is_running, tasks, ready, todo, stopPending, sinceStop >>
  /\ UNCHANGED << config, masterVars, ticketVars, storeVars, callVars >>

(***************************************************************************)
(* EmailParser (src/app/parser/email_parser.py).                            *)
(*                                                                         *)
(* A text is a sequence of characters.  A character outside ASCII is       *)
(* written by its code point: "u5de5" is U+5DE5.  re.search tries the      *)
(* start positions from the left and at each of them the ways to match in  *)
(* the order of the pattern: a greedy repeat takes all it can and gives    *)
(* back one at a time, a lazy one takes one and takes more one at a time.  *)
(* With re.DOTALL "." is any character and "$" is the end of the text or   *)
(* the place before a newline that ends the text.  re.IGNORECASE changes   *)
(* nothing for the labels, whose characters have no case.                  *)
(***************************************************************************)
\* self.patterns: the label of each field and the kind of its value
Patterns ==
  [ticket_id     |-> [label |-> << "u5de5", "u5355", "u7f16", "u53f7" >>, value |-> "word"],
   customer_name |-> [label |-> << "u5ba2", "u6237", "u540d", "u79f0" >>, value |-> "greedy"],
   contact_info  |-> [label |-> << "u8054", "u7cfb", "u65b9", "u5f0f" >>, value |-> "greedy"],
   problem_desc  |-> [label |-> << "u95ee", "u9898", "u63cf", "u8ff0" >>, value |-> "desc"],
   priority      |-> [label |-> << "u4f18", "u5148", "u7ea7" >>, value |-> "lazy"],
   status        |-> [label |-> << "u72b6", "u6001" >>, value |-> "lazy"],
   assigned_to   |-> [label |-> << "u6307", "u6d3e", "u7ed9" >>, value |-> "lazy"],
   created_time  |-> [label |-> << "u521b", "u5efa", "u65f6", "u95f4" >>, value |-> "time"]]

\* [:：] of the patterns: the colon and the fullwidth colon
Colons == { ":", "uff1a" }

\* \s
IsSpace(c) == c \in { " ", "\n", "\r", "\t" }

\* \d
IsDigit(c) == c \in { DigitChars[i] : i \in 1..Len(DigitChars) }

\* the classes of the patterns: \s; \w (letters of any script, digits and
\* "_": of the characters of the texts all but the blanks and the
\* punctuation); [\d-]; [\d:]
InClass(c, class) ==
  CASE class = "space" -> IsSpace(c)
    [] class = "word"  -> ~IsSpace(c) /\ c \notin { ":", "uff1a", "-", ".", "/" }
    [] class = "date"  -> IsDigit(c) \/ c = "-"
    [] class = "time"  -> IsDigit(c) \/ c = ":"

\* where a greedy repeat of a class that begins at j ends: the first
\* position from j on whose character is not of the class
RunEnd(s, j, class) ==
  CHOOSE k \in j..(Len(s) + 1) :
    /\ \A m \in j..(k - 1) : InClass(s[m], class)
    /\ k = Len(s) + 1 \/ ~InClass(s[k], class)

Match(s, from, to) == [matched |-> TRUE, group |-> SubSeq(s, from, to - 1)]
NoMatch == [matched |-> FALSE, group |-> << >>]

\* \s*(\w+)\s* at j: the blanks, then the longest run of word characters
WordValue(s, j) ==
  LET k == RunEnd(s, j, "space")
      e == RunEnd(s, k, "word")
  IN IF e > k THEN Match(s, k, e) ELSE NoMatch

\* where the group of \s*(.+) and of \s*(.+?) begins: after the blanks, or
\* at the last blank when the text ends with them (\s* gives it back)
GroupStart(s, j) ==
  LET k == RunEnd(s, j, "space")
  IN IF k <= Len(s) THEN k ELSE IF k > j THEN k - 1 ELSE 0

\* \s*(.+)\s* at j: the greedy group takes the rest of the text
GreedyValue(s, j) ==
  LET k == GroupStart(s, j)
  IN IF k = 0 THEN NoMatch ELSE Match(s, k, Len(s) + 1)

\* \s*(.+?)\s* at j: the lazy group takes one character and nothing after
\* it asks for more
LazyValue(s, j) ==
  LET k == GroupStart(s, j)
  IN IF k = 0 THEN NoMatch ELSE Match(s, k, k + 1)

\* (?=\n\S+:|$) at e
Lookahead(s, e) ==
  \/ e = Len(s) + 1
  \/ e = Len(s) /\ s[e] = "\n"
  \/ /\ e <= Len(s)
     /\ s[e] = "\n"
     /\ \E p \in (e + 2)..Len(s) :
          s[p] = ":" /\ \A m \in (e + 1)..(p - 1) : ~IsSpace(s[m])

\* \s*(.+?)(?=\n\S+:|$) at j: the lazy group grows until the lookahead holds
DescValue(s, j) ==
  LET k == GroupStart(s, j)
      e == CHOOSE e \in (k + 1)..(Len(s) + 1) :
             /\ Lookahead(s, e)
             /\ \A m \in (k + 1)..(e - 1) : ~Lookahead(s, m)
  IN IF k = 0 THEN NoMatch ELSE Match(s, k, e)

\* \s*([\d-]+\s+[\d:]+)\s* at j
TimeValue(s, j) ==
  LET k == RunEnd(s, j, "space")
      a == RunEnd(s, k, "date")
      b == RunEnd(s, a, "space")
      c == RunEnd(s, b, "time")
  IN IF a > k /\ b > a /\ c > b THEN Match(s, k, c) ELSE NoMatch

\* the positions after a label with its colon
AfterLabel(s, label) ==
  { i + Len(label) + 1 : i \in { i \in 1..(Len(s) - Len(label)) :
      SubSeq(s, i, i + Len(label) - 1) = label /\ s[i + Len(label)] \in Colons } }

\* the value of a pattern at j
ValueAt(value, s, j) ==
  CASE value = "word"   -> WordValue(s, j)
    [] value = "greedy" -> GreedyValue(s, j)
    [] value = "lazy"   -> LazyValue(s, j)
    [] value = "desc"   -> DescValue(s, j)
    [] value = "time"   -> TimeValue(s, j)

\* the keys of self.patterns
Fields == DOMAIN Patterns

\* re.search(self.patterns[field], email_body, re.DOTALL | re.IGNORECASE):
\* the leftmost match
SearchField(field, s) ==
  LET hits == { j \in AfterLabel(s, Patterns[field].label) :
                  ValueAt(Patterns[field].value, s, j).matched }
  IN IF hits = { } THEN NoMatch
     ELSE ValueAt(Patterns[field].value, s, CHOOSE j \in hits : \A h \in hits : j <= h)

\* str.strip()
Strip(s) ==
  LET inside == { i \in 1..Len(s) : ~IsSpace(s[i]) }
  IN IF inside = { } THEN << >>
     ELSE SubSeq(s, CHOOSE i \in inside : \A h \in inside : i <= h,
                    CHOOSE i \in inside : \A h \in inside : i >= h)

\* f"TEMP_{datetime.now().strftime('%Y%m%d%H%M%S')}"
TempId(t) == << "T", "E", "M", "P", "_" >> \o StrfDate(t.day) \o StrfTime(t.sec)

\* a variant that leaves an empty ticket_id empty
KeepTicketId(found, t) == found

\* if not ticket_info["ticket_id"]: the ticket_id is made of the clock
FillTicketId(found, t) ==
  IF found.ticket_id = << >> THEN [found EXCEPT !.ticket_id = TempId(t)] ELSE found

\* extract_ticket_info(email_body) at time t: the dict it returns
ExtractTicketInfo(s, t) ==
  FillTicketId([field \in Fields |->
                  LET match == SearchField(field, s)
                  IN IF match.matched THEN Strip(match.group) ELSE << >>], t)

\* at most MaxPieces pieces make a text
MaxPieces == 3

\* what the texts are made of: the label of the ticket number with either
\* colon, the label of the customer with its colon, and single characters
Pieces ==
  { Patterns.ticket_id.label \o << "uff1a" >>, Patterns.ticket_id.label \o << ":" >>, Patterns.customer_name.label \o << "uff1a" >>,
    << "T" >>, << "-" >>, << "1" >>, << " " >>, << "\n" >> }

\* the texts of n pieces
RECURSIVE PieceTexts(_)
PieceTexts(n) ==
  IF n = 0 THEN { << >> }
  ELSE { s \o p : s \in PieceTexts(n - 1), p \in Pieces }

\* a mail of four labelled lines
ScenarioBody ==
  Patterns.ticket_id.label \o << "uff1a", "T", "-", "1", "\n" >>
    \o Patterns.customer_name.label \o << "uff1a", "A", "l", "i", "c", "e", "\n" >>
    \o Patterns.problem_desc.label \o << "uff1a", "u65e0", "u6cd5", "u767b", "u5f55", "\n" >>
    \o Patterns.priority.label \o << "uff1a", "u9ad8" >>

\* the texts extract_ticket_info is given
Bodies == UNION { PieceTexts(n) : n \in 0..MaxPieces } \cup { ScenarioBody }

\* extract_ticket_info(self, email_body) returns
extract_ticket_info ==
  /\ ticket_info' = ExtractTicketInfo(email_body, now)
  /\ UNCHANGED email_body
  /\ UNCHANGED << masterVars, slaveVars, pushVars, storeVars, callVars >>

(***************************************************************************)
(* EmailParser.parse_email and EmailParser.save_to_file.  Neither holds an *)
(* await: each call is one action.  os.rename raises when its source is    *)
(* missing; when its target exists it replaces the target on POSIX and     *)
(* raises on Windows.  A file opened with open(path, "w", encoding=...) is *)
(* written in text mode: on Windows every "\n" is stored as "\r\n".        *)
(***************************************************************************)
\* a mail has at most MaxAttachments attachments
MaxAttachments == 2

\* save_to_file is called at most MaxSaves times for a parsed mail
MaxSaves == 2

OsNames == { "posix", "nt" }

\* output_dir
OutputDir == << "o" >>

\* where the attachments of the mails lie before they are moved: two of
\* the same file name in two folders, and one of another name
SourcePaths ==
  { << "i", "/", "a", ".", "P", "N", "G" >>, << "j", "/", "a", ".", "P", "N", "G" >>,
    << "i", "/", "b", ".", "t", "x", "t" >> }

\* the mails: email_details with a body and an html_body
Mails ==
  { [body |-> << "a", "\n", "b" >>, html_body |-> << >>],
    [body |-> << "a", "\r", "\n", "b" >>, html_body |-> << "<", "p", ">" >>],
    [body |-> Patterns.ticket_id.label \o << "uff1a", "T", "1", "\n", "b" >>, html_body |-> << >>] }

\* the lists of attachment paths
AttachmentLists == UNION { [1..n -> SourcePaths] : n \in 0..MaxAttachments }

\* os.path.basename(path)
Basename(path) ==
  LET slashes == { i \in 1..Len(path) : path[i] = "/" }
  IN IF slashes = { } THEN path
     ELSE SubSeq(path, (CHOOSE i \in slashes : \A h \in slashes : i >= h) + 1, Len(path))

\* os.path.splitext(path)[1]: from the last dot of the last component on,
\* when something other than dots stands before it
SplitExt(path) ==
  LET name == Basename(path)
      dots == { i \in 1..Len(name) : name[i] = "." }
      dot == CHOOSE i \in dots : \A h \in dots : i >= h
  IN IF dots = { } \/ \A i \in 1..(dot - 1) : name[i] = "." THEN << >>
     ELSE SubSeq(name, dot, Len(name))

\* the letters that have a case, large and small
Letters ==
  << << "A", "a" >>, << "B", "b" >>, << "C", "c" >>, << "D", "d" >>, << "E", "e" >>,
     << "F", "f" >>, << "G", "g" >>, << "H", "h" >>, << "I", "i" >>, << "J", "j" >>,
     << "K", "k" >>, << "L", "l" >>, << "M", "m" >>, << "N", "n" >>, << "O", "o" >>,
     << "P", "p" >>, << "Q", "q" >>, << "R", "r" >>, << "S", "s" >>, << "T", "t" >>,
     << "U", "u" >>, << "V", "v" >>, << "W", "w" >>, << "X", "x" >>, << "Y", "y" >>,
     << "Z", "z" >> >>

\* the small letter of each large one
LowerOf == [c \in { Letters[k][1] : k \in 1..Len(Letters) } |->
              Letters[CHOOSE k \in 1..Len(Letters) : Letters[k][1] = c][2]]

\* str.lower()
Lower(s) == [i \in 1..Len(s) |-> IF s[i] \in DOMAIN LowerOf THEN LowerOf[s[i]] ELSE s[i]]

\* image_extensions
ImageExtensions ==
  { << ".", "j", "p", "g" >>, << ".", "j", "p", "e", "g" >>, << ".", "p", "n", "g" >>,
    << ".", "g", "i", "f" >>, << ".", "b", "m", "p" >>, << ".", "t", "i", "f", "f" >> }

\* _is_image_file(file_path): the value it returns
IsImageFileCaseSensitive(path) == SplitExt(path) \in ImageExtensions

IsImageFile(path) == Lower(SplitExt(path)) \in ImageExtensions

\* the spellings of s in large and small letters
RECURSIVE Spellings(_)
Spellings(s) ==
  IF s = << >> THEN { << >> }
  ELSE LET pairs == { k \in 1..Len(Letters) : s[1] \in { Letters[k][1], Letters[k][2] } }
           heads == IF pairs = { } THEN { s[1] }
                    ELSE UNION { { Letters[k][1], Letters[k][2] } : k \in pairs }
       IN { << h >> \o t : h \in heads, t \in Spellings(Tail(s)) }

\* the paths _is_image_file is asked about: a folder, a name and what
\* ends the name
Folders == { << >>, << "d", "/" >>, << "d", ".", "p", "n", "g", "/" >> }

Stems == { << >>, << "a" >>, << "." >>, << "a", ".", "b" >>, << ".", "a" >> }

Endings ==
  UNION { Spellings(e) : e \in ImageExtensions }
    \cup { << >>, << "." >>, << "p", "n", "g" >>, << ".", "t", "x", "t" >>,
           << ".", "t", "i", "f" >>, << ".", "j", "p", "g", "x" >>,
           << ".", "p", "n", "g", "." >>, << ".", "p", "n", "g", ".", "t", "x", "t" >>,
           << ".", "t", "x", "t", ".", "P", "n", "g" >> }

FilePaths == { f \o n \o e : f \in Folders, n \in Stems, e \in Endings }

\* no call of _is_image_file has returned
NotAsked == [returned |-> FALSE, value |-> FALSE]

\* _is_image_file(image_path)
is_image_file ==
  /\ is_image' = [returned |-> TRUE, value |-> IsImageFile(image_path)]
  /\ UNCHANGED << image_path, batch >>
  /\ UNCHANGED << masterVars, slaveVars, pushVars, ticketVars, storeVars >>

\* parse_email(email_details, attachments) at time t: the dict it returns
ParsedData(email_details, attachments, t) ==
  [email       |-> email_details,
   ticket      |-> ExtractTicketInfo(email_details.body, t),
   attachments |-> attachments,
   parsed_time |-> StrfDashed(t),
   has_images  |-> \E i \in 1..Len(attachments) : IsImageFile(attachments[i])]

NoSave == [n |-> 0, status |-> "none", path |-> << >>, outcome |-> "none", failed |-> { }]

\* parse_email(email_details, attachments) returns
parse_email ==
  /\ parsed_data' = ParsedData(incoming.email, incoming.attachments, now)
  /\ email_body' = incoming.email.body
  /\ ticket_info' = ExtractTicketInfo(incoming.email.body, now)
  /\ saved' = NoSave
  /\ UNCHANGED << os_name, incoming, disk >>
  /\ UNCHANGED << masterVars, slaveVars, pushVars, callVars >>

\* the entry of the disk d a path names: on POSIX the entry spelled as the
\* path; on Windows the file system compares names without regard to the
\* case of letters and keeps the spelling an entry was created with
Resolve(d, path, osn) ==
  IF osn # "nt" \/ path \in DOMAIN d THEN path
  ELSE LET same == { q \in DOMAIN d : Len(q) = Len(path) /\ Lower(q) = Lower(path) }
       IN IF same # { } THEN CHOOSE q \in same : TRUE ELSE path

\* the mail collector saves an attachment at path (attachment.SaveAsFile)
SaveAsFile(path) ==
  /\ Resolve(disk, path, os_name) \notin DOMAIN disk
  /\ disk' = [q \in DOMAIN disk \cup { path } |-> IF q = path THEN [kind |-> "file", content |-> << "bytes", path >>] ELSE disk[q]]
  /\ UNCHANGED << os_name, incoming, parsed_data, saved >>
  /\ UNCHANGED << masterVars, slaveVars, pushVars, ticketVars, callVars >>

\* the disk d with what at path
Put(d, path, what) == [q \in DOMAIN d \cup { path } |-> IF q = path THEN what ELSE d[q]]

\* if not os.path.exists(path): os.makedirs(path)
MakeDirs(d, path) == IF path \in DOMAIN d THEN d ELSE Put(d, path, [kind |-> "dir", content |-> << >>])

\* what a file opened in text mode holds after f.write(text): "\n" is
\* written as os.linesep
RECURSIVE WriteText(_, _)
WriteText(text, osn) ==
  IF text = << >> THEN << >>
  ELSE (IF Head(text) = "\n" /\ osn = "nt" THEN << "\r", "\n" >> ELSE << Head(text) >>)
         \o WriteText(Tail(text), osn)

\* what f.read() of a file opened in text mode gives: "\r\n" and "\r" are
\* read as "\n"
RECURSIVE ReadText(_)
ReadText(content) ==
  IF content = << >> THEN << >>
  ELSE IF Head(content) = "\r"
    THEN << "\n" >> \o ReadText(IF Len(content) >= 2 /\ content[2] = "\n"
                                  THEN Tail(Tail(content)) ELSE Tail(content))
  ELSE << Head(content) >> \o ReadText(Tail(content))

\* os.rename(attachment_path, os.path.join(attachments_dir, filename))
MoveAttachment(d, attachment_path, attachments_dir, osn) ==
  LET old_path == Resolve(d, attachment_path, osn)
      new_path == Resolve(d, PathJoin(attachments_dir, Basename(attachment_path)), osn)
  IN IF old_path \notin DOMAIN d \/ (osn = "nt" /\ new_path \in DOMAIN d)
       THEN [disk |-> d, raised |-> TRUE]
       ELSE [disk |-> [q \in (DOMAIN d \ { old_path }) \cup { new_path } |->
                         IF q = new_path THEN d[old_path] ELSE d[q]],
             raised |-> FALSE]

\* a variant of the loop without the try: the first rename that raises
\* ends the loop and the call
RECURSIVE MoveAllNoTry(_, _, _, _, _)
MoveAllNoTry(st, attachments, i, attachments_dir, osn) ==
  IF i > Len(attachments) THEN st
  ELSE LET moved == MoveAttachment(st.disk, attachments[i], attachments_dir, osn)
       IN IF moved.raised
            THEN [disk |-> st.disk, failed |-> st.failed \cup { i }, raised |-> TRUE]
            ELSE MoveAllNoTry([st EXCEPT !.disk = moved.disk], attachments, i + 1,
                              attachments_dir, osn)

\* for attachment_path in parsed_data["attachments"]: the rename in a try
\* whose except clause logs; failed is history: the renames that raised
RECURSIVE MoveAll(_, _, _, _, _)
MoveAll(st, attachments, i, attachments_dir, osn) ==
  IF i > Len(attachments) THEN st
  ELSE LET moved == MoveAttachment(st.disk, attachments[i], attachments_dir, osn)
       IN MoveAll([disk   |-> moved.disk,
                   failed |-> IF moved.raised THEN st.failed \cup { i } ELSE st.failed,
                   raised |-> FALSE],
                  attachments, i + 1, attachments_dir, osn)

\* ticket_dir = os.path.join(output_dir, ticket_id)
TicketDir(data) == PathJoin(OutputDir, data.ticket.ticket_id)

\* os.path.join(ticket_dir, name)
InTicketDir(data, name) == PathJoin(TicketDir(data), << name >>)

File(content) == [kind |-> "file", content |-> content]

\* how a call of save_to_file goes: it returns, or json.dump raises
SaveOutcomes == { "ok", "dump_error" }

\* save_to_file(parsed_data, output_dir): the disk after it and how it ends
SaveToFile(d, data, outcome, osn) ==
  LET ticket_dir == Resolve(d, TicketDir(data), osn)
      made == MakeDirs(d, ticket_dir)
      written == Put(Put(made, PathJoin(ticket_dir, << "email_data.json" >>), File(JsonDump(data))),
                     PathJoin(ticket_dir, << "email_body.txt" >>), File(WriteText(data.email.body, osn)))
      html == IF data.email.html_body # << >>
                THEN Put(written, PathJoin(ticket_dir, << "email_body.html" >>),
                         File(WriteText(data.email.html_body, osn)))
                ELSE written
      moved == IF data.attachments # << >>
                 THEN MoveAll([disk |-> MakeDirs(html, PathJoin(ticket_dir, << "attachments" >>)),
                               failed |-> { }, raised |-> FALSE],
                              data.attachments, 1, PathJoin(ticket_dir, << "attachments" >>), osn)
                 ELSE [disk |-> html, failed |-> { }, raised |-> FALSE]
  IN IF outcome = "dump_error"
       THEN [disk |-> Put(made, PathJoin(ticket_dir, << "email_data.json" >>), File(<< "partial" >>)),
             status |-> "raised", path |-> << >>, failed |-> { }]
     ELSE IF moved.raised
       THEN [disk |-> moved.disk, status |-> "raised", path |-> << >>, failed |-> moved.failed]
     ELSE [disk |-> moved.disk, status |-> "returned", path |-> TicketDir(data),
           failed |-> moved.failed]

\* save_to_file(parsed_data, output_dir) is called and ends
save_to_file(outcome) ==
  /\ DOMAIN parsed_data # { }
  /\ saved.n < MaxSaves
  /\ LET after == SaveToFile(disk, parsed_data, outcome, os_name) IN
     /\ disk' = after.disk
     /\ saved' = [n |-> saved.n + 1, status |-> after.status, path |-> after.path,
                  outcome |-> outcome, failed |-> after.failed]
  /\ UNCHANGED << os_name, incoming, parsed_data >>
  /\ UNCHANGED << masterVars, slaveVars, pushVars, ticketVars, callVars >>

\* a list passed to batch_parse_emails holds at most MaxEmails mails
MaxEmails == 2

\* the mails of a batch, as OutlookReader.get_email_details returns them:
\* two that name the ticket T1, one that names the ticket t1, and one
\* without a ticket number
BatchMails ==
  { [subject |-> << "s", "1" >>, html_body |-> << >>,
     body |-> Patterns.ticket_id.label \o << "uff1a", "T", "1", "\n", "b" >>],
    [subject |-> << "s", "2" >>, html_body |-> << "<", "p", ">" >>,
     body |-> Patterns.ticket_id.label \o << "uff1a", "T", "1" >>],
    [subject |-> << "s", "3" >>, html_body |-> << >>,
     body |-> Patterns.ticket_id.label \o << "uff1a", "t", "1" >>],
    [subject |-> << >>, html_body |-> << >>, body |-> << "a", "\n", "b" >>] }

EmailLists == UNION { [1..n -> BatchMails] : n \in 0..MaxEmails }

\* how the work on one mail goes: both calls return, parse_email raises,
\* or save_to_file raises in json.dump
EmailOutcomes == { "ok", "parse_error", "dump_error" }

\* no call of batch_parse_emails has been made
NoBatch == [called |-> FALSE, emails |-> << >>, outcomes |-> << >>, at |-> [day |-> 0, sec |-> 0],
            parsed_results |-> << >>]

\* what one turn of the loop leaves, from the parsed mail and the result
\* of save_to_file
BatchTurn(st, data, after, outcome) ==
  IF outcome = "parse_error" THEN st
  ELSE IF after.status = "raised" THEN [st EXCEPT !.disk = after.disk]
  ELSE [disk |-> after.disk,
        parsed_results |-> Append(st.parsed_results,
                                  [ticket_id |-> data.ticket.ticket_id,
                                   subject |-> data.email.subject,
                                   saved_path |-> after.path])]

\* the body of the loop for one mail: st holds the disk and parsed_results;
\* parse_email is evaluated once
BatchStep(st, email, outcome, t, osn) ==
  LET turns ==
        { BatchTurn(pair[1], pair[2],
                    SaveToFile(pair[1].disk, pair[2],
                               IF outcome = "ok" THEN "ok" ELSE "dump_error", osn),
                    outcome) :
          pair \in { << st, ParsedData(email, << >>, t) >> } }
  IN CHOOSE turn \in turns : TRUE

\* a variant of the loop without the try: the first mail that fails ends it
RECURSIVE BatchLoopNoTry(_, _, _, _, _, _)
BatchLoopNoTry(st, emails, outcomes, i, t, osn) ==
  IF i > Len(emails) THEN st
  ELSE IF outcomes[i] # "ok" THEN BatchStep(st, emails[i], outcomes[i], t, osn)
  ELSE BatchLoopNoTry(BatchStep(st, emails[i], outcomes[i], t, osn), emails, outcomes, i + 1, t, osn)

\* for email in emails: the body in a try whose except clause logs and
\* continues
RECURSIVE BatchLoop(_, _, _, _, _, _)
BatchLoop(st, emails, outcomes, i, t, osn) ==
  IF i > Len(emails) THEN st
  ELSE BatchLoop(BatchStep(st, emails[i], outcomes[i], t, osn), emails, outcomes, i + 1, t, osn)

\* batch_parse_emails(emails, output_dir) is called once and returns
batch_parse_emails(outcomes) ==
  /\ ~batch.called
  /\ LET after == BatchLoop([disk |-> MakeDirs(disk, Resolve(disk, OutputDir, os_name)),
                             parsed_results |-> << >>],
                            batch.emails, outcomes, 1, now, os_name) IN
     /\ disk' = after.disk
     /\ batch' = [called |-> TRUE, emails |-> batch.emails, outcomes |-> outcomes, at |-> now,
                  parsed_results |-> after.parsed_results]
  /\ UNCHANGED << image_path, is_image >>
  /\ UNCHANGED << os_name, incoming, parsed_data, saved >>
  /\ UNCHANGED << masterVars, slaveVars, pushVars, ticketVars >>

\* SlaveSync.__init__: no loop, nothing queued
SlaveInit ==
  /\ is_running = FALSE
  /\ last_sync_result = [status |-> "none"]
  /\ last_sync_time = << >>
  /\ tasks = [t \in Tasks |-> NoTask]
  /\ ready = << >>
  /\ todo = 0
  /\ stopPending = FALSE
  /\ sinceStop = [pushes |-> 0, sleeps |-> 0, completed |-> 0]
  /\ call = NoCall

\* MasterSync.__init__ on an empty data directory
MasterInit ==
  /\ now = [day |-> 0, sec |-> 0]
  /\ files = << >>
  /\ synced_data = << >>
  /\ slaves = << >>
  /\ last = [op |-> "init"]
  /\ nIngest = 0
  /\ okCount = 0
  /\ okKeys = { }
  /\ lastOk = [s \in SlaveIds |-> << >>]
  /\ swept = FALSE
  /\ advances = 0

\* EmailParser.__init__: nothing parsed, nothing saved
ParserInit ==
  /\ ticket_info = << >>
  /\ disk = << >>
  /\ parsed_data = << >>
  /\ saved = NoSave
  /\ is_image = NotAsked

\* a mail without text and without attachments
NoMail == [email |-> [body |-> << >>, html_body |-> << >>], attachments |-> << >>]

\* no mail has been given to the parser
Init ==
  /\ MasterInit
  /\ SlaveInit
  /\ config = "int"
  /\ ParserInit
  /\ email_body = << >>
  /\ incoming = NoMail
  /\ os_name = "posix"
  /\ image_path = << >>
  /\ batch = NoBatch

\* the parser is given a mail
ParseInit ==
  /\ MasterInit
  /\ SlaveInit
  /\ config = "int"
  /\ ParserInit
  /\ email_body \in Bodies
  /\ incoming = NoMail
  /\ os_name = "posix"
  /\ image_path = << >>
  /\ batch = NoBatch

\* the parser on either platform, with a mail at hand
StoreInit ==
  /\ MasterInit
  /\ SlaveInit
  /\ config = "int"
  /\ ParserInit
  /\ email_body = << >>
  /\ incoming \in [email : Mails, attachments : AttachmentLists]
  /\ os_name \in OsNames
  /\ image_path = << >>
  /\ batch = NoBatch

\* the parser is asked about a path
ClassifyInit ==
  /\ MasterInit
  /\ SlaveInit
  /\ config = "int"
  /\ ParserInit
  /\ email_body = << >>
  /\ incoming = NoMail
  /\ os_name = "posix"
  /\ image_path \in FilePaths
  /\ batch = NoBatch

\* the parser on either platform, with a list of mails at hand
BatchInit ==
  /\ MasterInit
  /\ SlaveInit
  /\ config = "int"
  /\ ParserInit
  /\ email_body = << >>
  /\ incoming = NoMail
  /\ os_name \in OsNames
  /\ image_path = << >>
  /\ batch \in { [NoBatch EXCEPT !.emails = emails] : emails \in EmailLists }

\* the slave node with any of the configurations
ConfigInit ==
  /\ MasterInit
  /\ SlaveInit
  /\ config \in Intervals
  /\ ParserInit
  /\ email_body = << >>
  /\ incoming = NoMail
  /\ os_name = "posix"
  /\ image_path = << >>
  /\ batch = NoBatch

\* the master node
Next ==
  \/ \E slave_id \in SlaveIds, data \in Payloads, outcome \in IngestOutcomes :
       handle_slave_sync(slave_id, data, outcome)
  \/ \E days \in SweepDays, fail \in 0..Cardinality(DOMAIN files) :
       clean_old_data(days, fail)
  \/ generate_sync_report
  \/ Tick
  \/ NextDay

Spec == Init /\ [][Next]_vars

\* the master node, started again at any time
RestartNext ==
  \/ \E slave_id \in SlaveIds, data \in Payloads, outcome \in IngestOutcomes :
       handle_slave_sync(slave_id, data, outcome)
  \/ \E days \in SweepDays, fail \in 0..Cardinality(DOMAIN files) :
       clean_old_data(days, fail)
  \/ generate_sync_report
  \/ Tick
  \/ NextDay
  \/ NewMasterSync

RestartSpec == Init /\ [][RestartNext]_vars

\* the event loop runs the callback at the head of its ready queue
RunHead ==
  \/ start_sync
  \/ stop_sync
  \/ \E t \in Tasks : LoopBegins(t)
  \/ \E t \in Tasks : LoopAfterPush(t)
  \/ \E t \in Tasks : LoopAfterSleep(t)

\* a timer ends what the loop of task t waits for: the second of a sleep,
\* or the time the session gives an HTTP exchange
Completes(t) == TimerFires(t) \/ HttpWaits(t) \/ PushCompletes(t, "timeout")

\* the slave node
SlaveNext ==
  \/ RequestStart
  \/ RequestStop
  \/ start_sync
  \/ stop_sync
  \/ \E t \in Tasks : LoopBegins(t)
  \/ \E t \in Tasks : HttpWaits(t)
  \/ \E t \in Tasks, outcome \in PushOutcomes : PushCompletes(t, outcome)
  \/ \E t \in Tasks : LoopAfterPush(t)
  \/ \E t \in Tasks : TimerFires(t)
  \/ \E t \in Tasks : LoopAfterSleep(t)

SlaveSpec == Init /\ [][SlaveNext]_vars

ConfigSpec == ConfigInit /\ [][SlaveNext]_vars

\* the slave node with an event loop that keeps running what is ready and
\* with timers that fire; nothing is assumed of the master or the network.
\* A round is finite and ends with a look at the timers, so what they bring
\* in is queued however often new rounds begin.
FairSlaveSpec ==
  /\ SlaveSpec
  /\ WF_vars(RunHead)
  /\ \A t \in Tasks : SF_vars(Completes(t))

\* the slave node making calls of sync_to_master on request, as its clock
\* advances
PushNext ==
  \/ \E outlook \in OutlookOutcomes, n \in MailCounts, system \in SystemOutcomes :
       SyncToMasterPosts(outlook, n, system)
  \/ \E outcome \in PushOutcomes : SyncToMasterReturns(outcome)
  \/ Tick
  \/ NextDay

PushSpec == Init /\ [][PushNext]_vars

\* the parser extracts the fields of a mail, as the clock advances
ParseNext ==
  \/ extract_ticket_info
  \/ Tick
  \/ NextDay

ParseSpec == ParseInit /\ [][ParseNext]_vars

\* the mail is parsed and saved, while the mail collector saves attachments
StoreNext ==
  \/ \E path \in SourcePaths : SaveAsFile(path)
  \/ parse_email
  \/ \E outcome \in SaveOutcomes : save_to_file(outcome)

StoreSpec == StoreInit /\ [][StoreNext]_vars

\* one batch of mails
BatchNext ==
  \/ \E outcomes \in [1..Len(batch.emails) -> EmailOutcomes] : batch_parse_emails(outcomes)
  \/ Tick
  \/ NextDay

BatchSpec == BatchInit /\ [][BatchNext]_vars

\* the classification of a path
ClassifyNext == is_image_file

ClassifySpec == ClassifyInit /\ [][ClassifyNext]_vars

(***************************************************************************)
(* MasterSync.get_synced_slaves: self.slaves.copy()                        *)
(***************************************************************************)
get_synced_slaves == [i \in 1..Len(slaves) |-> slaves[i]]

(***************************************************************************)
(* Properties of MasterSync.                                               *)
(***************************************************************************)
\* the slave ids of the successful calls of handle_slave_sync
Ingested == { k[1] : k \in okKeys }

\* C1: as long as no clean_old_data has run, the index holds exactly one
\* record for every slave_id ingested with success and for no other, and the
\* record is, field by field, the one the last successful ingest of that
\* slave_id made (nothing of an earlier record is kept, and an ingest for
\* another slave_id does not touch it).
C1_LastIngestWins ==
  ~swept =>
    /\ Keys(synced_data) = Ingested
    /\ \A i, j \in 1..Len(synced_data) :
         synced_data[i].slave_id = synced_data[j].slave_id => i = j
    /\ \A s \in Ingested : lastOk[s] = << Get(synced_data, s) >>

\* a slave_id was ingested twice with different snapshots and the index
\* holds the single record of the second ingest
C1_Witness ==
  /\ ~swept
  /\ okCount = 2
  /\ Len(synced_data) = 1
  /\ synced_data[1].data = "snapB"
  /\ \E p \in DOMAIN files :
       /\ files[p].content = JsonDump("snapA")
       /\ files[p].owner = synced_data[1].slave_id

\* the date token clean_old_data reads off the name of a snapshot file that
\* handle_slave_sync wrote: the third "_"-separated field of
\* sync_<slave_id>_<date>_<time>.json is the date for a slave_id without
\* "_", and the second part of the slave_id otherwise
TokenRead(f) ==
  IF Len(Split(f.owner, "_")) >= 2 THEN Split(f.owner, "_")[2] ELSE StrfDate(f.written)

\* a step is a clean_old_data(days) that was not aborted by an error
SweepStep(days) == last'.op = "sweep" /\ last'.days = days /\ ~last'.aborted

\* the records whose file is gone after the step are gone after the step
EvictedWithFile ==
  \A i \in 1..Len(synced_data) :
    synced_data[i].file_path \notin DOMAIN files'
      => synced_data[i].slave_id \notin Keys(synced_data')

\* C2 as stated: after clean_old_data(0) no snapshot file is left, and the
\* record of every slave_id whose file was removed is gone.
C2_SweepZeroRemovesAll ==
  [][SweepStep(0) => (DOMAIN files' = { } /\ EvictedWithFile)]_vars

\* C2 as amended: clean_old_data(0) removes exactly the snapshot files whose
\* date token, as read off the file name, sorts before today's date: for a
\* slave_id without "_" the files written on an earlier day, while the files
\* written today stay; and the record of every slave_id whose file was
\* removed is gone.
C2_SweepZeroRemovesEarlierDays ==
  [][SweepStep(0) =>
       /\ \A p \in DOMAIN files :
            p \notin DOMAIN files' <=> StrLess(TokenRead(files[p]), StrfDate(now.day))
       /\ \A p \in DOMAIN files :
            ~(\E i \in 1..Len(files[p].owner) : files[p].owner[i] = "_")
              => (p \notin DOMAIN files' <=> files[p].written < now.day)
       /\ EvictedWithFile]_vars

\* clean_old_data(0) has removed the file of a slave and evicted its record
C2_Witness ==
  /\ last.op = "sweep" /\ last.days = 0 /\ ~last.aborted
  /\ last.ret >= 1
  /\ \E p \in last.removed : p = DataFile(Pc1, Timestamp([day |-> 0, sec |-> 0]))
  /\ Len(slaves) >= 1 /\ slaves[1] = Pc1
  /\ Pc1 \notin Keys(synced_data)

\* C3: clean_old_data(days) deletes a snapshot file if and only if the day
\* on which handle_slave_sync wrote it is earlier than the cutoff day (today
\* minus days), whatever the slave_id; every other file stays.
C3_DeletesIffWrittenBeforeCutoff ==
  [][\A days \in SweepDays :
       SweepStep(days) =>
         \A p \in DOMAIN files :
           p \notin DOMAIN files' <=> files[p].written < now.day - days]_vars

\* C4: a record leaves the index only in a step that deletes the file the
\* record points at: a record whose file exists after the step is still in
\* the index, and clean_old_data leaves the records it keeps as they are.
C4_EvictsOnlyDeleted ==
  [][\A i \in 1..Len(synced_data) :
       LET r == synced_data[i] IN
       /\ r.slave_id \notin Keys(synced_data')
            => (r.file_path \in DOMAIN files /\ r.file_path \notin DOMAIN files')
       /\ (last'.op = "sweep" /\ r.slave_id \in Keys(synced_data'))
            => Get(synced_data', r.slave_id) = r]_vars

\* clean_old_data has deleted an older file of a slave whose record points
\* at a newer file, and the record is still there
C4_Witness ==
  /\ last.op = "sweep" /\ last.ret = 1
  /\ DataFile(Pc1, Timestamp([day |-> 0, sec |-> 0])) \in last.removed
  /\ Pc1 \in Keys(synced_data)
  /\ Get(synced_data, Pc1).file_path \in DOMAIN files

\* C8 as stated: with no clean_old_data, after n calls of handle_slave_sync
\* that all succeeded the data directory holds n files.
C8_OneFilePerIngest ==
  (~swept /\ nIngest = okCount) => Cardinality(DOMAIN files) = okCount

\* C8 as amended: with no clean_old_data, after n calls of handle_slave_sync
\* that all succeeded the data directory holds one file for every
\* (slave_id, timestamp in seconds) that was ingested, named by the two: n
\* files unless two ingests of one slave_id fell into the same second.
C8_OneFilePerIdAndSecond ==
  (~swept /\ nIngest = okCount) =>
    /\ DOMAIN files = { DataFile(k[1], k[2]) : k \in okKeys }
    /\ Cardinality(DOMAIN files) = Cardinality(okKeys)

\* two ingests of one slave_id at different times have left two files
C8_Witness ==
  /\ ~swept /\ nIngest = 2 /\ okCount = 2
  /\ Cardinality(Ingested) = 1
  /\ Cardinality(DOMAIN files) = 2

\* C9: as long as no clean_old_data has run, get_synced_slaves() lists every
\* slave_id ingested with success once, so its length is the number of
\* distinct slave_ids ingested, and the index holds one record for each.
C9_SlavesAreDistinctIngested ==
  ~swept =>
    /\ Len(get_synced_slaves) = Cardinality(Ingested)
    /\ { get_synced_slaves[i] : i \in 1..Len(get_synced_slaves) } = Ingested
    /\ Len(synced_data) = Cardinality(Ingested)
    /\ \A s \in Ingested : Get(synced_data, s).slave_id = s

\* two distinct slave_ids were ingested and each has its own record
C9_Witness ==
  /\ ~swept /\ okCount = 2
  /\ Len(get_synced_slaves) = 2
  /\ Get(synced_data, Pc1).file_path # Get(synced_data, HostA).file_path

\* C10: a call of handle_slave_sync in which open() or json.dump raised
\* returns an ack with status "error", raises nothing, and leaves the index
\* and the slaves list as they were.
C10_FailedIngestChangesNothing ==
  [][(nIngest' = nIngest + 1 /\ last'.failure # "none") =>
       /\ last'.status = "error"
       /\ ~last'.raised
       /\ synced_data' = synced_data
       /\ slaves' = slaves]_vars

\* json.dump failed in an ingest of a slave that has a record: the file of
\* this second is cut short and the record is the one of the earlier ingest
C10_Witness ==
  /\ last.op = "ingest" /\ last.status = "error" /\ last.failure = "dump_error"
  /\ Len(synced_data) = 1
  /\ \E p \in DOMAIN files :
       /\ ~files[p].complete
       /\ files[p].owner = synced_data[1].slave_id
       /\ p # synced_data[1].file_path

\* C11: generate_sync_report changes neither the index, the slaves list nor
\* a file; and as long as no clean_old_data has run, its report counts the
\* distinct slave_ids ingested with success and lists one entry for each and
\* no other, with the last_sync and the file path of the slave's record and
\* the size the file at that path has on disk.
C11_ReportListsIngested ==
  [][last'.op = "report" =>
       /\ UNCHANGED << synced_data, slaves, files >>
       /\ ~swept =>
            /\ last'.total_slaves = Cardinality(Ingested)
            /\ Len(last'.slave_details) = Cardinality(Ingested)
            /\ \A s \in Ingested :
                 \E i \in 1..Len(last'.slave_details) :
                   LET e == last'.slave_details[i] IN
                   /\ e.slave_id = s
                   /\ e.last_sync = lastOk[s][1].last_sync
                   /\ e.data_file = lastOk[s][1].file_path
                   /\ e.data_file \in DOMAIN files
                   /\ e.data_size = ByteLen(files[e.data_file].content)]_vars

\* a report after ingests of two slaves with snapshots of different size
C11_Witness ==
  /\ last.op = "report" /\ ~swept
  /\ last.total_slaves = 2
  /\ Len(last.slave_details) = 2
  /\ last.slave_details[1].data_size = 80
  /\ last.slave_details[2].data_size = 120

(***************************************************************************)
(* Properties of SlaveSync and its control surface.                        *)
(***************************************************************************)
\* C5: with start_sync rejecting a start while is_running is true, at most
\* one task is inside start_sync_loop at any time.
C5_AtMostOneLoop == Cardinality({ t \in Tasks : Active(t) }) <= 1

\* since stop_sync stopped the loop, no loop has begun a push or a sleep
NothingBegunAfterStop ==
  stopPending => (sinceStop.pushes = 0 /\ sinceStop.sleeps = 0)

\* C6: once stop_sync has stopped the loop, and as long as no start_sync
\* starts one, no loop begins a push or an asyncio.sleep(1): a loop only
\* finishes the push or the one sleep it is in, and then it ends, also when
\* more of the interval is left.
C6_StopEndsLoop ==
  /\ []NothingBegunAfterStop
  /\ stopPending ~> (~stopPending \/ \A t \in Tasks : ~Active(t))

\* stop_sync has stopped a loop that was in a sleep with more of the
\* interval to go; the sleep is over and the loop is about to go on
C6_Witness ==
  /\ stopPending /\ ~is_running
  /\ \E t \in Tasks : tasks[t].pc = "sleep_ready" /\ tasks[t].i < SyncInterval

\* C7: a loop starts a push that is not its first only after sync_interval
\* calls of asyncio.sleep(1) have completed since it started the push before.
C7_IntervalBetweenPushes ==
  \A t \in Tasks :
    (tasks[t].pc = "pushing" /\ ~tasks[t].first) => tasks[t].gap >= SyncInterval

\* a loop is in its second push, sync_interval sleeps after the first
C7_Witness ==
  \E t \in Tasks :
    tasks[t].pc = "pushing" /\ ~tasks[t].first /\ tasks[t].gap = SyncInterval

C13_StopLeavesPushInFlight ==
  /\ [][/\ (is_running /\ ~is_running') => tasks' = tasks
        /\ \A t \in Tasks :
             (tasks[t].pc = "pushing" /\ tasks'[t].pc # "pushing") =>
               /\ tasks'[t].pc = "push_ready"
               /\ last_sync_result'.status \in { "success", "error" }
               /\ stopPending => sinceStop'.completed = 1]_vars
  /\ \A t \in Tasks : []<>(tasks[t].pc # "pushing")

\* a push that was in flight when stop_sync stopped the loop has been
\* answered by the master with success, and the result is stored
C13_Witness ==
  /\ stopPending /\ ~is_running
  /\ sinceStop.completed = 1
  /\ last_sync_result.status = "success"
  /\ \E t \in Tasks : tasks[t].pc = "push_ready"

\* C15: a push in flight ends, whatever the master does: when the time of
\* the session is up without an answer, sync_to_master returns an error
\* result and the loop goes on.
C15_PushEnds ==
  /\ [](\A t \in Tasks : tasks[t].waited <= HttpTimeout)
  /\ [][\A t \in Tasks :
          PushCompletes(t, "timeout") =>
            (last_sync_result'.status = "error" /\ tasks'[t].pc = "push_ready")]_vars
  /\ \A t \in Tasks : []<>(tasks[t].pc # "pushing")

\* the master has never answered, a push has ended with an error result
\* and the loop sleeps
C15_Witness ==
  /\ last_sync_result.status = "error" /\ last_sync_time = << >>
  /\ \E t \in Tasks : tasks[t].pc = "sleeping"

(***************************************************************************)
(* C14: when the collection of the mailbox fails (the reader does not      *)
(* connect, or something raises) and the host can be described, the call   *)
(* is not given up: a snapshot with slave_id, timestamp, system_info and   *)
(* config is built and POSTed, and its outlook_info is an error record     *)
(* with status "error" and without counts.                                 *)
(***************************************************************************)
C14_CollectionFailureStillPosts ==
  (call.pc # "idle" /\ call.outlook \in { "no_connect", "raised" } /\ call.system = "ok") =>
    /\ call.posted
    /\ call.sync_data.slave_id = HostA
    /\ call.sync_data.timestamp = StrfDashed(call.at)
    /\ call.sync_data.system_info = collect_system_info("ok", call.at).value
    /\ call.sync_data.config = Config
    /\ call.sync_data.outlook_info.status = "error"
    /\ "total_emails" \notin DOMAIN call.sync_data.outlook_info

\* a call whose collection raised has been answered by the master
C14_Witness ==
  /\ call.pc = "returned"
  /\ call.outlook = "raised"
  /\ call.system = "ok"
  /\ call.posted
  /\ call.result.status = "success"

\* extract_ticket_info has returned
Extracted == DOMAIN ticket_info # { }

\* "TEMP_" and fourteen digits
IsTempId(id) ==
  /\ Len(id) = 19
  /\ SubSeq(id, 1, 5) = << "T", "E", "M", "P", "_" >>
  /\ \A i \in 6..19 : IsDigit(id[i])

\* the places of a text where p begins
Occurrences(s, p) == { i \in 1..(Len(s) - Len(p) + 1) : SubSeq(s, i, i + Len(p) - 1) = p }

\* what follows the first p in its line
RestOfLine(s, p) ==
  LET i == CHOOSE i \in Occurrences(s, p) : \A h \in Occurrences(s, p) : i <= h
      from == i + Len(p)
      to == CHOOSE e \in from..(Len(s) + 1) :
              /\ \A m \in from..(e - 1) : s[m] # "\n"
              /\ e = Len(s) + 1 \/ s[e] = "\n"
  IN SubSeq(s, from, to - 1)

(***************************************************************************)
(* C16: for a text that holds the label of the ticket number with the      *)
(* fullwidth colon and a X that is not blank after it in the line, the     *)
(* ticket_id extracted is X.strip();                                       *)
(* for a text without the label, the ticket_id is "TEMP_" and fourteen     *)
(* digits.                                                                 *)
(***************************************************************************)
C16_TicketIdIsLabelledValue ==
  Extracted =>
    /\ ( /\ Occurrences(email_body, Patterns.ticket_id.label \o << "uff1a" >>) # { }
         /\ Strip(RestOfLine(email_body, Patterns.ticket_id.label \o << "uff1a" >>)) # << >> ) =>
         ticket_info.ticket_id = Strip(RestOfLine(email_body, Patterns.ticket_id.label \o << "uff1a" >>))
    /\ Occurrences(email_body, Patterns.ticket_id.label) = { } => IsTempId(ticket_info.ticket_id)

(***************************************************************************)
(* C17: for the mail of four labelled lines (ticket number T-1, customer   *)
(* Alice, problem description, priority) the fields extracted are "T-1",   *)
(* "Alice", the description, the priority, and the empty string for        *)
(* status, assigned_to, contact_info and created_time.                     *)
(***************************************************************************)
C17_ScenarioFields ==
  (Extracted /\ email_body = ScenarioBody) =>
    ticket_info = [ticket_id     |-> << "T", "-", "1" >>,
                   customer_name |-> << "A", "l", "i", "c", "e" >>,
                   contact_info  |-> << >>,
                   problem_desc  |-> << "u65e0", "u6cd5", "u767b", "u5f55" >>,
                   priority      |-> << "u9ad8" >>,
                   status        |-> << >>,
                   assigned_to   |-> << >>,
                   created_time  |-> << >>]

\* the characters of the texts and of the ticket_id made of the clock
Chars ==
  UNION { { s[i] : i \in 1..Len(s) } : s \in Bodies }
    \cup { DigitChars[i] : i \in 1..Len(DigitChars) } \cup { "T", "E", "M", "P", "_" }

(***************************************************************************)
(* C18: extract_ticket_info returns for every text, the empty one too, a   *)
(* dict with the eight fields, each a string; a field whose pattern does   *)
(* not match is the empty string, and ticket_id is never empty.            *)
(***************************************************************************)
C18_ExtractIsTotal ==
  Extracted =>
    /\ DOMAIN ticket_info = Fields
    /\ \A field \in Fields : ticket_info[field] \in Seq(Chars)
    /\ \A field \in Fields \ { "ticket_id" } :
         ~SearchField(field, email_body).matched => ticket_info[field] = << >>
    /\ ticket_info.ticket_id # << >>

\* the empty text has been given: no field but the ticket_id made of the clock
C18_Witness ==
  /\ Extracted
  /\ email_body = << >>
  /\ IsTempId(ticket_info.ticket_id)
  /\ \A field \in Fields \ { "ticket_id" } : ticket_info[field] = << >>

\* a step that is a call of save_to_file
Saves == saved'.n = saved.n + 1

\* the indices of the attachments of the parsed mail
Attached == 1..Len(parsed_data.attachments)

\* where save_to_file moves the i-th attachment to
Target(i) == PathJoin(InTicketDir(parsed_data, "attachments"), Basename(parsed_data.attachments[i]))

\* save_to_file is called again for a mail with attachments after a call
\* that returned and moved every one of them, and no source is back
CalledAgain ==
  /\ saved.n >= 1
  /\ saved.status = "returned"
  /\ saved.failed = { }
  /\ Attached # { }
  /\ \A i \in Attached : parsed_data.attachments[i] \notin DOMAIN disk

C20_PersistThenReadReproduces ==
  [][(Saves /\ saved'.status = "returned") =>
       /\ saved'.path = PathJoin(OutputDir, parsed_data.ticket.ticket_id)
       /\ disk'[saved'.path].kind = "dir"
       /\ ReadText(disk'[InTicketDir(parsed_data, "email_body.txt")].content) = parsed_data.email.body
       /\ Names(disk', InTicketDir(parsed_data, "attachments"))
            = { Basename(parsed_data.attachments[i]) : i \in Attached }
       /\ \A i \in Attached : parsed_data.attachments[i] \notin DOMAIN disk']_vars


(***************************************************************************)
(* C22.  _is_image_file                                                    *)
(***************************************************************************)
\* the names of the image formats, without the dot
ImageSuffixes == { Tail(e) : e \in ImageExtensions }

\* the last component of path is a stem that is not made of dots alone, a
\* dot, and a suffix without a dot
HasSuffix(path, suffix) ==
  LET name == Basename(path)
      n == Len(name) - Len(suffix)
  IN /\ n >= 2
     /\ SubSeq(name, n + 1, Len(name)) = suffix
     /\ \A i \in 1..Len(suffix) : suffix[i] # "."
     /\ name[n] = "."
     /\ \E i \in 1..(n - 1) : name[i] # "."

\* C22: _is_image_file(path) returns true exactly when the last component
\* of path ends in a dot and a suffix that, in small letters, is one of
\* jpg, jpeg, png, gif, bmp and tiff; it returns false for every other path,
\* a path without an extension among them, and the same for a path and for
\* the path written in small letters throughout.
C22_ImageIffSuffix ==
  is_image.returned =>
    /\ is_image.value =
         \E suffix \in UNION { Spellings(e) : e \in ImageSuffixes } :
           HasSuffix(image_path, suffix)
    /\ SplitExt(image_path) = << >> => ~is_image.value
    /\ is_image.value = IsImageFile(Lower(image_path))

\* a path whose suffix is written in large letters was found to be an image
C22_Witness ==
  /\ is_image.returned /\ is_image.value
  /\ HasSuffix(image_path, << "P", "N", "G" >>)


\* the lines of a text
Lines(s) == Split(s, "\n")

\* the values of the lines of s made of the label of a field, a colon and
\* a value that is not blank
LineValues(s, field) ==
  LET label == Patterns[field].label
      lines == Lines(s)
  IN { SubSeq(lines[i], Len(label) + 2, Len(lines[i])) :
         i \in { i \in 1..Len(lines) :
                   /\ Len(lines[i]) > Len(label) + 1
                   /\ StartsWith(lines[i], label)
                   /\ lines[i][Len(label) + 1] \in Colons
                   /\ Strip(SubSeq(lines[i], Len(label) + 2, Len(lines[i]))) # << >> } }

(***************************************************************************)
(* C23: for each of the eight fields, when the text holds one line made of *)
(* the label of the field, a colon and a value, the field extracted is     *)
(* that value without the blanks around it, whatever the other lines are   *)
(* and however long the value is; when the text does not hold the label,   *)
(* the field is the empty string (the ticket_id is then made of the        *)
(* clock).                                                                 *)
(***************************************************************************)
C23_FieldIsValueOfItsLine ==
  Extracted =>
    \A field \in Fields :
      /\ \A value \in LineValues(email_body, field) :
           LineValues(email_body, field) = { value } => ticket_info[field] = Strip(value)
      /\ Occurrences(email_body, Patterns[field].label) = { } =>
           IF field = "ticket_id" THEN IsTempId(ticket_info[field])
           ELSE ticket_info[field] = << >>

(***************************************************************************)
(* C24: the problem description extracted ends before the next line that   *)
(* begins with the label of a field and a colon, ASCII or full-width: it   *)
(* holds no line break followed by the label of a field and a colon.       *)
(***************************************************************************)
C24_DescriptionEndsAtNextField ==
  Extracted =>
    \A field \in Fields, colon \in Colons :
      Occurrences(ticket_info.problem_desc,
                  << "\n" >> \o Patterns[field].label \o << colon >>) = { }


\* the mails of the batch whose parse and persist both succeeded
Persisted == { i \in 1..Len(batch.emails) : batch.outcomes[i] = "ok" }

\* the ticket_id of the i-th mail of the batch
TicketIdOf(i) == ExtractTicketInfo(batch.emails[i].body, batch.at).ticket_id

\* the entry of the disk a path names, as the platform finds it
OnDisk(path) == Resolve(disk, path, os_name)

(***************************************************************************)
(* C21: batch_parse_emails returns one entry for each mail whose parse and *)
(* persist both succeeded and for no other, in the order of the mails,     *)
(* with the ticket_id, the subject and the directory of the ticket; a mail *)
(* that fails is caught and has no entry, and the mails after it are       *)
(* worked on: those that succeed have their record on the disk, those that *)
(* fail in json.dump have their directory.                                 *)
(***************************************************************************)
C21_BatchReturnsPersisted ==
  batch.called =>
    /\ Len(batch.parsed_results) = Cardinality(Persisted)
    /\ \A i \in Persisted :
         /\ batch.parsed_results[Cardinality({ j \in Persisted : j <= i })]
              = [ticket_id  |-> TicketIdOf(i),
                 subject    |-> batch.emails[i].subject,
                 saved_path |-> PathJoin(OutputDir, TicketIdOf(i))]
         /\ OnDisk(PathJoin(PathJoin(OutputDir, TicketIdOf(i)), << "email_data.json" >>))
              \in DOMAIN disk
    /\ \A i \in 1..Len(batch.emails) :
         batch.outcomes[i] = "dump_error" => OnDisk(PathJoin(OutputDir, TicketIdOf(i))) \in DOMAIN disk

\* the first mail of a batch failed and the second has its entry
C21_Witness ==
  /\ batch.called
  /\ Len(batch.emails) = 2
  /\ batch.outcomes[1] # "ok" /\ batch.outcomes[2] = "ok"
  /\ Len(batch.parsed_results) = 1
  /\ batch.parsed_results[1].subject = batch.emails[2].subject

\* the mail of the batch persisted last in the directory of the i-th
Later(i) == { j \in (i + 1)..Len(batch.emails) :
                batch.outcomes[j] # "parse_error" /\ TicketIdOf(j) = TicketIdOf(i) }

(***************************************************************************)
(* C26: after the persists of a batch there is one directory for each      *)
(* ticket_id persisted; two tickets of different ticket_ids have different *)
(* directories, and the record file and the body file of a ticket hold     *)
(* what the last persist of that ticket_id wrote, never what the persist   *)
(* of another ticket_id wrote.                                             *)
(***************************************************************************)
C26_OneDirectoryPerTicketId ==
  batch.called =>
    \A i \in Persisted :
      LET ticket_dir == PathJoin(OutputDir, TicketIdOf(i)) IN
      /\ OnDisk(ticket_dir) \in DOMAIN disk
      /\ disk[OnDisk(ticket_dir)].kind = "dir"
      /\ \A j \in Persisted :
           TicketIdOf(j) # TicketIdOf(i) =>
             OnDisk(PathJoin(OutputDir, TicketIdOf(j))) # OnDisk(ticket_dir)
      /\ Later(i) = { } =>
           /\ disk[OnDisk(PathJoin(ticket_dir, << "email_data.json" >>))]
                = File(JsonDump(ParsedData(batch.emails[i], << >>, batch.at)))
           /\ disk[OnDisk(PathJoin(ticket_dir, << "email_body.txt" >>))]
                = File(WriteText(batch.emails[i].body, os_name))


(***************************************************************************)
(* C27: after any ingests and sweeps the slave_ids get_synced_slaves       *)
(* returns are the slave_ids that have a record in the index, and the      *)
(* report counts as many slaves as records.                                *)
(***************************************************************************)
C27_SlavesAreIndexed ==
  /\ { get_synced_slaves[i] : i \in 1..Len(get_synced_slaves) } = Keys(synced_data)
  /\ last.op = "report" => last.total_slaves = last.synced_data_count

(***************************************************************************)
(* C28: after any ingests, failed ones too, and sweeps, aborted ones too,  *)
(* every record of the index points at a file that is on the disk and      *)
(* holds the payload of the record.                                        *)
(***************************************************************************)
C28_RecordHasItsFile ==
  \A i \in 1..Len(synced_data) :
    /\ synced_data[i].file_path \in DOMAIN files
    /\ files[synced_data[i].file_path].content = JsonDump(synced_data[i].data)


\* the snapshot files of the directory that a sweep of the given days
\* finds old: those written before the cutoff day
OldFiles(days) == { p \in DOMAIN files : files[p].written < now.day - days }

(***************************************************************************)
(* C25: a MasterSync constructed on a directory that holds snapshot files  *)
(* has an empty index and an empty slaves list, and the files stay; a      *)
(* record and a slave appear only through an ingest that succeeds, so a    *)
(* report made while nothing was ingested since shows no slave; and a      *)
(* sweep removes the old files of the directory whether or not the index   *)
(* knows them.                                                             *)
(***************************************************************************)
C25_RestartForgetsIndex ==
  [][/\ last'.op = "restart" =>
          /\ synced_data' = << >>
          /\ get_synced_slaves' = << >>
          /\ files' = files
     /\ (Len(synced_data') > Len(synced_data) \/ Len(slaves') > Len(slaves)) =>
          last'.op = "ingest" /\ last'.status = "success"
     /\ (last'.op = "report" /\ synced_data = << >> /\ slaves = << >>) =>
          /\ last'.total_slaves = 0
          /\ last'.synced_data_count = 0
          /\ last'.slave_details = << >>
     /\ \A days \in SweepDays :
          (last'.op = "sweep" /\ last'.days = days /\ ~last'.aborted) =>
            OldFiles(days) \cap DOMAIN files' = { }]_vars

\* the master has been started again on a directory that holds the
\* complete snapshot of a slave, which it does not list
C25_Witness ==
  /\ last.op = "restart"
  /\ \E p \in DOMAIN files : files[p].complete
  /\ synced_data = << >>
  /\ get_synced_slaves = << >>


(***************************************************************************)
(* C29: is_running agrees with the loop: a task leaves start_sync_loop     *)
(* only when stop_sync_loop has cleared the flag, and whenever no task is  *)
(* inside start_sync_loop is_running is false, whatever the configuration  *)
(* holds under sync_interval, so that start_sync is not rejected while no  *)
(* loop runs.                                                              *)
(***************************************************************************)
C29_RunningOnlyWithLoop ==
  (\A t \in Tasks : ~Active(t)) => ~is_running

\* a step in which a call of sync_to_master ends
CallEnds == call' # call /\ call'.pc = "returned"

(***************************************************************************)
(* C30: a call of sync_to_master that fails (a collection raises, the      *)
(* exchange raises or times out) leaves last_sync_time as it was and       *)
(* stores an error result; a call the master answered stores the time of   *)
(* the answer and the master's result in the same step; and nothing else   *)
(* touches either, so last_sync_time is the time of the last call that     *)
(* was answered.                                                           *)
(***************************************************************************)
C30_SyncTimeIsLastAnswer ==
  [][/\ (CallEnds /\ call'.result.failure \in { "raised", "timeout" }) =>
          /\ last_sync_time' = last_sync_time
          /\ last_sync_result'.status = "error"
     /\ (CallEnds /\ call'.result.failure \in { "none", "rejected" }) =>
          /\ last_sync_time' = StrfDashed(now)
          /\ last_sync_result'.status = call'.result.status
     /\ ~CallEnds => UNCHANGED << last_sync_time, last_sync_result >>]_vars

\* a call that was answered, a second has passed, and a later call has
\* failed: last_sync_time is still the time of the answer
C30_Witness ==
  /\ call.pc = "returned"
  /\ call.result.failure = "timeout"
  /\ last_sync_time # << >>
  /\ last_sync_time # StrfDashed(call.at)

====
